---- MODULE Spec2Model ----
(***************************************************************************)
(* Sales Enquiry Management: the data synchronisation core.                *)
(*                                                                         *)
(* The repository holds two DatabaseService classes:                       *)
(*   - services/mockDb.ts : remote store with fall back to an offline      *)
(*     mode that persists the snapshot in localStorage  (impl = "mockDb")  *)
(*   - unnamed/part_001   : "ONLINE ONLY" service with onSnapshot          *)
(*     listeners and cloud-first writes                 (impl = "part001") *)
(* Both are modelled; impl is fixed in the initial state.                  *)
(*                                                                         *)
(* The remote document store is abstract: a write either commits or is     *)
(* rejected, and a listener delivers the committed content of a            *)
(* collection.  Every await of the code is a point where other             *)
(* continuations may run.                                                  *)
(***************************************************************************)
EXTENDS Integers, Sequences, FiniteSets, TLC

\* ------------------------------------------------------------------ bounds
MaxId == 1          \* caller-chosen record ids are 1..MaxId
MaxWrites == 2      \* write operations issued per session
MaxAtt == 2         \* attachments per plan write
MaxInits == 2       \* init() calls awaiting their bulk load at a time
MaxObs == 2         \* observers that register with subscribe()
MaxList == 2        \* entries of the seEmails list of a hierarchy
MaxMail == 2        \* tagged messages in the mailbox
MaxTimers == 2      \* timers of one signIn() call that are followed
MaxSends == 1       \* messages a session hands to the mail provider

\* --------------------------------------------------------------- constants
SuperAdminId == 0   \* stands for the id 'super_admin_session'
SystemGlobalId == 0 \* stands for the organization id 'system_global'
PageSize == 50      \* 'maxResults': 50 of fetchLatestData

Ids == 1..MaxId
DocIds == 0..MaxId
Collections == {"organizations", "users", "customers", "plans"}
CollectionOrder == <<"organizations", "users", "customers", "plans">>

superEmail == "keerthithiruvarasan@gmail.com"
altEmail == "keerthithiruvarsan@gmail.com"
superPassword == "123456789@Asdf"

VARIABLES
  impl,          \* which DatabaseService class runs
  hasConfig,     \* firebaseConfig is a non-empty object
  data,          \* this.data : AppData
  initialized,   \* this.initialized
  isOffline,     \* mockDb.ts: this.isOffline
  isOnline,      \* part_001: this.isOnline
  listeners,     \* part_001: collections with a registered onSnapshot listener
  localStorage,  \* item 'sales_tracker_offline_data'
  remote,        \* remote document store: collection -> (id -> document)
  pcInit,        \* number of init() calls awaiting their bulk load
  initResult,    \* outcome of init() towards its caller, once one settled
  ops,           \* write operations issued, in call order
  storageFull,   \* localStorage.setItem raises (quota exceeded) in this session
  subscribers,   \* part_001: this.subscribers, the registered callbacks
  unsubscribed,  \* observers whose deregistration handle has been called
  notified,      \* observers invoked by the latest handler that changed data
  late,          \* observers invoked after their handle had been called
  loginResult,   \* App: the latest login attempt and what it returned
  reinit,        \* App: an init() call made after a completed one has returned
  gisInited,     \* mailService.ts: this.gisInited
  signInCall,    \* the call of signIn(): position, outcome, timers run
  gapiInited,    \* mailService.ts: this.gapiInited
  accessToken,   \* this.accessToken is set
  actingUser,    \* the user passed to broadcastData
  outbox,        \* messages handed to gmail.users.messages.send, in order
  sendResult,    \* outcome of the latest broadcastData towards its caller
  mailbox,       \* tagged messages of mailbox 'me', in list order
  fetched,       \* value returned by the latest fetchLatestData
  fetchResult,   \* how the latest fetchLatestData ended
  discarded,     \* packets the latest fetchLatestData had pushed when it was cut short
  delivered,     \* ids of the messages whose packet some fetch returned
  redelivered    \* ids of the messages whose packet was returned again

obsVars == <<subscribers, unsubscribed, notified, late>>

authVars == <<gisInited, signInCall>>

mailVars == <<authVars, gapiInited, accessToken, actingUser, outbox, sendResult, mailbox,
              fetched, fetchResult, discarded, delivered, redelivered>>

dbVars == <<impl, hasConfig, data, initialized, isOffline, isOnline, listeners,
            localStorage, remote, pcInit, initResult, ops, storageFull>>

appVars == <<loginResult, reinit>>

vars == <<dbVars, obsVars, mailVars, appVars>>

\* ------------------------------------------------------------------- types
INITIAL_DATA ==
  [organizations |-> <<>>, users |-> <<>>, customers |-> <<>>, plans |-> <<>>]

BootstrapAdmin ==
  [id |-> SuperAdminId, email |-> superEmail, password |-> superPassword,
   role |-> "SUPER_ADMIN", organizationId |-> SystemGlobalId,
   isApproved |-> TRUE]

Attachment(n, d) == [name |-> n, type |-> "application/pdf", data |-> d]

\* file.data.startsWith('http')
IsUrl(d) == d \in {"http_remote", "http_uploaded"}

RECURSIVE SeqsUpTo(_, _)
SeqsUpTo(S, n) ==
  IF n = 0 THEN {<<>>}
  ELSE LET shorter == SeqsUpTo(S, n - 1)
       IN  shorter \cup {Append(s, x) : s \in {t \in shorter : Len(t) = n - 1}, x \in S}

AttachmentInputs == {Attachment("f", "base64"), Attachment("g", "http_remote")}
AttachmentLists == SeqsUpTo(AttachmentInputs, MaxAtt)

NewOrganizations == {[id |-> i, name |-> "Acme", isApproved |-> FALSE] : i \in Ids}
NewUsers ==
  {[id |-> i, email |-> "user@acme.com", password |-> "pw", role |-> "DSE",
    organizationId |-> i, isApproved |-> TRUE] : i \in Ids}
NewCustomers == {[id |-> i, name |-> "Cust", annualPotential |-> 0] : i \in Ids}
NewPlans ==
  {[id |-> i, status |-> "open", attachments |-> a] : i \in Ids, a \in AttachmentLists}

OrganizationUpdates == {[isApproved |-> TRUE]}
UserUpdates == {[role |-> "RSM"]}
PlanUpdates == {[status |-> "won"]} \cup {[attachments |-> a] : a \in AttachmentLists}

\* ------------------------------------------------------- pure helper code
\* { ...o, ...updates }
Merge(o, updates) ==
  [k \in (DOMAIN o) \cup (DOMAIN updates) |->
     IF k \in DOMAIN updates THEN updates[k] ELSE o[k]]

\* this.data.<c>.push(rec)
Push(d, c, rec) == [d EXCEPT ![c] = Append(@, rec)]

\* the map, were the first record replaced whatever its id
MapUpdate_first(d, c, id, updates) ==
  [d EXCEPT ![c] = [i \in DOMAIN @ |->
                      IF i = 1 THEN Merge(@[i], updates) ELSE @[i]]]

\* this.data.<c> = this.data.<c>.map(o => o.id === id ? { ...o, ...updates } : o)
MapUpdate(d, c, id, updates) ==
  [d EXCEPT ![c] = [i \in DOMAIN @ |->
                      IF @[i].id = id THEN Merge(@[i], updates) ELSE @[i]]]

\* sanitizeDoc on a plain document: a field-by-field copy.  (Timestamp and
\* reference values, which it converts, do not occur in documents written by
\* this program.)
sanitizeDoc(doc) == [k \in DOMAIN doc |-> doc[k]]

\* snap.docs.map(d => sanitizeDoc(d.data())): documents in id order
RECURSIVE DocsFrom(_, _)
DocsFrom(col, i) ==
  IF i > MaxId THEN <<>>
  ELSE IF i \in DOMAIN col THEN <<sanitizeDoc(col[i])>> \o DocsFrom(col, i + 1)
  ELSE DocsFrom(col, i + 1)

SnapDocs(c) == DocsFrom(remote[c], 0)

\* setDoc(doc(firestore, c, id), rec): create or replace
SetDoc(r, c, id, rec) == [r EXCEPT ![c] = (id :> rec) @@ @]

\* updateDoc(doc(firestore, c, id), updates): partial update of an existing doc
UpdateDoc(r, c, id, updates) == [r EXCEPT ![c] = [@ EXCEPT ![id] = Merge(@, updates)]]

\* localStorage item values
NoItem == [kind |-> "null"]
CorruptItem == [kind |-> "corrupt"]
\* JSON.stringify(this.data) / JSON.parse(saved)
JSONstringify(d) == [kind |-> "json", value |-> d]
JSONparse(s) == s.value
ParseThrows(s) == s.kind # "json"

\* ensureSuperAdmin
HasSuperAdmin(users) ==
  \E i \in DOMAIN users :
    /\ users[i].email \in {superEmail, altEmail}
    /\ users[i].role = "SUPER_ADMIN"

\* ensureSuperAdmin without its push
ensureSuperAdmin_absent(d) == d

\* ensureSuperAdmin without its check
ensureSuperAdmin_always(d) == Push(d, "users", BootstrapAdmin)

ensureSuperAdmin(d) ==
  IF HasSuperAdmin(d.users) THEN d ELSE Push(d, "users", BootstrapAdmin)

\* ------------------------------------------------- mailService.ts: values
\* An address is its sequence of characters.
Emails == {<<>>, <<"a">>, <<"a", "@">>, <<"b", "@">>}

\* An optional property is <<>> (undefined) or <<value>>.
Optional(S) == {<<>>} \cup {<<x>> : x \in S}

\* UserHierarchy.  The seEmails list takes every shape up to MaxList
\* entries; the other two lists are undefined, empty or hold one address.
Hierarchies ==
  [rsmEmail : Optional(Emails),
   seEmails : Optional(SeqsUpTo(Emails, MaxList)),
   dealerEmails : Optional(Optional({<<"b", "@">>})),
   dseEmails : Optional(Optional({<<"b", "@">>}))]

\* User, as far as broadcastData reads it
Users == [email : Emails, hierarchy : Optional(Hierarchies)]

\* SyncPacket.  A payload is an object of three properties; numbers are
\* written as tokens, "NaN" is the number NaN and "undefined" is a property
\* that is present with the value undefined.
PacketTypes == {"PLAN", "CUSTOMER", "USER_REG"}

Payloads ==
  [id : {"c1"}, annualPotential : {"5", "NaN"}, fyPlan : {"2025", "undefined"}]

Packets ==
  [type : PacketTypes, data : Payloads, timestamp : {"t1"},
   sender : {<<"a", "@">>}]

\* the packets the sending side broadcasts
BroadcastPackets ==
  {p \in Packets : p.data.annualPotential = "5" /\ p.data.fyPlan = "2025"}

\* the acting user of a receiving session
Receiver == [email |-> <<"a", "@">>, hierarchy |-> <<>>]

\* no login attempted yet
NoLogin == [app |-> "none"]

\* signIn() not called yet
NoSignIn == [pc |-> "idle", res |-> "none", timers |-> 0, nested |-> FALSE]

\* the mail service before any call, the acting user being one of U.  G:
\* loadGapi ran to its end in the constructor (TRUE), or returned at once
\* because there is no window (FALSE).
MailStartWith(U, G) ==
  /\ gisInited \in G
  /\ signInCall = NoSignIn
  /\ gapiInited = FALSE
  /\ accessToken = FALSE
  /\ actingUser \in U
  /\ outbox = <<>>
  /\ sendResult = "none"
  /\ mailbox = <<>>
  /\ fetched = <<>>
  /\ fetchResult = "none"
  /\ discarded = <<>>
  /\ delivered = {}
  /\ redelivered = {}

MailStart(U) == MailStartWith(U, {TRUE})

\* -------------------------------------------------------------------- Init
EmptyRemote == [c \in Collections |-> <<>>]

\* a remote store that holds a super-admin under the alternative bootstrap
\* address, and a plan
RemoteAdmin ==
  [id |-> 1, email |-> altEmail, password |-> "pw", role |-> "SUPER_ADMIN",
   organizationId |-> SystemGlobalId, isApproved |-> TRUE]

SeededRemote ==
  [organizations |-> <<>>,
   users |-> (1 :> RemoteAdmin),
   customers |-> <<>>,
   plans |-> (1 :> [id |-> 1, status |-> "open",
                    attachments |-> <<Attachment("g", "http_remote")>>])]

SavedSnapshot ==
  [organizations |-> <<[id |-> 1, name |-> "Acme", isApproved |-> TRUE]>>,
   users |-> <<BootstrapAdmin>>,
   customers |-> <<[id |-> 1, name |-> "Cust", annualPotential |-> 0]>>,
   plans |-> <<>>]

InitRemotes == {EmptyRemote, SeededRemote}
InitStorage == {NoItem, CorruptItem, JSONstringify(SavedSnapshot)}

\* Without a configuration there is no remote store to reach; part_001 never
\* reads the storage item, which an earlier session may have left behind.
\* Sessions on a device whose storage is full start from a stored item.
InitFor(i) ==
  /\ impl = i
  /\ hasConfig \in BOOLEAN
  /\ data = INITIAL_DATA
  /\ initialized = FALSE
  /\ isOffline = FALSE
  /\ isOnline = FALSE
  /\ listeners = {}
  /\ localStorage \in (IF i = "mockDb" THEN InitStorage
                       ELSE {JSONstringify(SavedSnapshot)})
  /\ remote \in (IF hasConfig THEN InitRemotes ELSE {EmptyRemote})
  /\ pcInit = 0
  /\ initResult = "none"
  /\ ops = <<>>
  /\ storageFull \in (IF i = "mockDb" /\ hasConfig /\ remote = SeededRemote
                        /\ localStorage # NoItem
                      THEN BOOLEAN ELSE {FALSE})
  /\ subscribers = <<>>
  /\ unsubscribed = {}
  /\ notified = {}
  /\ late = {}
  /\ loginResult = NoLogin
  /\ reinit = FALSE
  /\ MailStart({Receiver})

Init == InitFor("mockDb") \/ InitFor("part001")


\* ---------------------------------------------- mockDb.ts: device storage
\* saveToLocal without its setItem
saveToLocal_skip(off, d, ok, item) == item

\* saveToLocal: the value of the storage item afterwards.  ok = setItem did
\* not raise (a raise is caught and logged, the item keeps its value).
saveToLocal(off, d, ok, item) ==
  IF off /\ ok THEN JSONstringify(d) ELSE item

\* seedOfflineData: <<this.data, storage item>>
seedOfflineData(off, ok, item) ==
  <<INITIAL_DATA, saveToLocal(off, INITIAL_DATA, ok, item)>>

\* loadFromLocal: <<this.data, storage item>>
loadFromLocal(off, ok, item) ==
  IF item # NoItem
  THEN IF ParseThrows(item) THEN seedOfflineData(off, ok, item)
       ELSE <<JSONparse(item), item>>
  ELSE seedOfflineData(off, ok, item)

\* ------------------------------------------------------- mockDb.ts: init()
\* init() without its early return
mockDb_initBody_noReturn ==
  /\ impl = "mockDb"
  /\ IF ~hasConfig
     THEN LET loaded == loadFromLocal(TRUE, ~storageFull, localStorage) IN
            /\ isOffline' = TRUE
            /\ data' = ensureSuperAdmin(loaded[1])
            /\ localStorage' = loaded[2]
            /\ initialized' = TRUE
            /\ initResult' = "resolved"
            /\ UNCHANGED pcInit
     ELSE /\ pcInit < MaxInits
          /\ pcInit' = pcInit + 1
          /\ initResult' = IF initResult = "none" THEN "pending" ELSE initResult
          /\ UNCHANGED <<data, initialized, isOffline, localStorage>>
  /\ UNCHANGED <<mailVars, obsVars, impl, hasConfig, isOnline, listeners, remote, ops, storageFull>>

\* The synchronous part of init(): early return, the no-config branch, or the
\* start of the bulk load.  initialized is set only when a bulk load has
\* settled, so a call made while an earlier one awaits its load starts a
\* second load.
mockDb_initBody ==
  /\ impl = "mockDb"
  /\ IF initialized
     THEN /\ initResult' = "resolved"
          /\ UNCHANGED <<data, initialized, isOffline, localStorage, pcInit>>
     ELSE IF ~hasConfig
     THEN LET loaded == loadFromLocal(TRUE, ~storageFull, localStorage) IN
            /\ isOffline' = TRUE
            /\ data' = ensureSuperAdmin(loaded[1])
            /\ localStorage' = loaded[2]
            /\ initialized' = TRUE
            /\ initResult' = "resolved"
            /\ UNCHANGED pcInit
     ELSE /\ pcInit < MaxInits
          /\ pcInit' = pcInit + 1
          /\ initResult' = IF initResult = "none" THEN "pending" ELSE initResult
          /\ UNCHANGED <<data, initialized, isOffline, localStorage>>
  /\ UNCHANGED <<mailVars, obsVars, impl, hasConfig, isOnline, listeners, remote, ops, storageFull>>

\* a call of init()
mockDb_init == mockDb_initBody /\ UNCHANGED appVars

\* Promise.all of the four getDocs resolved
mockDb_initLoaded ==
  /\ impl = "mockDb"
  /\ pcInit > 0
  /\ data' = ensureSuperAdmin([c \in Collections |-> SnapDocs(c)])
  /\ isOffline' = FALSE
  /\ initialized' = TRUE
  /\ pcInit' = pcInit - 1
  /\ initResult' = "resolved"
  /\ UNCHANGED <<appVars, mailVars, obsVars, impl, hasConfig, isOnline, listeners, localStorage, remote,
                 ops, storageFull>>

\* one of the getDocs raised
mockDb_initFailed ==
  /\ impl = "mockDb"
  /\ pcInit > 0
  /\ LET loaded == loadFromLocal(TRUE, ~storageFull, localStorage) IN
       /\ isOffline' = TRUE
       /\ data' = ensureSuperAdmin(loaded[1])
       /\ localStorage' = loaded[2]
  /\ initialized' = TRUE
  /\ pcInit' = pcInit - 1
  /\ initResult' = "resolved"
  /\ UNCHANGED <<appVars, mailVars, obsVars, impl, hasConfig, isOnline, listeners, remote, ops,
                 storageFull>>

\* ------------------------------------------------------ part_001: init()
\* init() has no await.  k is the first onSnapshot call that raises
\* (k = 5: none raises).
FailPoints == {1, 3}

part001_initBody ==
  /\ impl = "part001"
  /\ IF initialized
     THEN /\ initResult' = "resolved"
          /\ UNCHANGED <<initialized, isOnline, listeners>>
     ELSE IF ~hasConfig
     THEN /\ isOnline' = FALSE
          /\ initResult' = "rejected"
          /\ UNCHANGED <<initialized, listeners>>
     ELSE \E k \in FailPoints \cup {5} :
            /\ listeners' = listeners \cup {CollectionOrder[i] : i \in 1..(k - 1)}
            /\ IF k = 5
               THEN /\ isOnline' = TRUE
                    /\ initialized' = TRUE
                    /\ initResult' = "resolved"
               ELSE /\ isOnline' = FALSE
                    /\ initResult' = "rejected"
                    /\ UNCHANGED initialized
  /\ UNCHANGED <<mailVars, obsVars, impl, hasConfig, data, isOffline, localStorage, remote,
                 pcInit, ops, storageFull>>

\* a call of init()
part001_init == part001_initBody /\ UNCHANGED appVars

\* the App calls init() once more after a call of it has completed (in
\* either class), and notes that the call returned
app_initAgain ==
  /\ initialized
  /\ mockDb_initBody \/ part001_initBody
  /\ initResult' = "resolved"
  /\ reinit' = TRUE
  /\ UNCHANGED loginResult

\* ------------------------------------- part_001: subscribe / notifySubscribers
Observers == 1..MaxObs

Range(f) == {f[i] : i \in DOMAIN f}

\* this.subscribers.filter(cb => cb # callback), for the callbacks in gone
RECURSIVE Without(_, _)
Without(subs, gone) ==
  IF subs = <<>> THEN <<>>
  ELSE IF Head(subs) \in gone THEN Without(Tail(subs), gone)
       ELSE <<Head(subs)>> \o Without(Tail(subs), gone)

\* subscribe(callback): the callback is pushed; an observer registers once
part001_subscribe(ob) ==
  /\ impl = "part001"
  /\ ob \notin Range(subscribers) \cup unsubscribed
  /\ subscribers' = Append(subscribers, ob)
  /\ UNCHANGED <<appVars, mailVars, impl, hasConfig, data, initialized, isOffline, isOnline,
                 listeners, localStorage, remote, pcInit, initResult, ops,
                 storageFull, unsubscribed, notified, late>>

\* the handle returned by subscribe is called outside a notification round:
\* this.subscribers is replaced by a filtered copy
part001_unsubscribe(ob) ==
  /\ impl = "part001"
  /\ ob \in Range(subscribers)
  /\ subscribers' = Without(subscribers, {ob})
  /\ unsubscribed' = unsubscribed \cup {ob}
  /\ UNCHANGED <<appVars, mailVars, impl, hasConfig, data, initialized, isOffline, isOnline,
                 listeners, localStorage, remote, pcInit, initResult, ops,
                 storageFull, notified, late>>

\* notifySubscribers: forEach runs over the array that was this.subscribers
\* when the round began (arr); a handle called by a callback replaces
\* this.subscribers and leaves arr as it is.  calls[i] is the set of
\* observers whose handle the i-th callback calls.  st holds subs, unsub,
\* late and inv (the observers invoked so far).
RECURSIVE notifyFrom(_, _, _, _)
notifyFrom(arr, i, calls, st) ==
  IF i > Len(arr) THEN st
  ELSE notifyFrom(arr, i + 1, calls,
         [subs  |-> Without(st.subs, calls[i]),
          unsub |-> st.unsub \cup calls[i],
          late  |-> IF arr[i] \in st.unsub THEN st.late \cup {arr[i]}
                    ELSE st.late,
          inv   |-> st.inv \cup {arr[i]}])

notifySubscribers(calls) ==
  notifyFrom(subscribers, 1, calls,
             [subs |-> subscribers, unsub |-> unsubscribed, late |-> late,
              inv |-> {}])

\* what the callbacks of one round may do: each calls no handle or the handle
\* of one registered observer
HandleCalls ==
  [DOMAIN subscribers -> {{}} \cup {{ob} : ob \in Range(subscribers)}]

\* an onSnapshot callback runs for collection c: the collection is replaced
\* by the snapshot, then notifySubscribers()
part001_onSnapshot(c) ==
  /\ impl = "part001"
  /\ c \in listeners
  /\ data' = [data EXCEPT ![c] = SnapDocs(c)]
  /\ ops' = [o \in DOMAIN ops |->
               IF ops[o].c = c /\ ops[o].pc # "done"
               THEN [ops[o] EXCEPT !.raced = TRUE] ELSE ops[o]]
  /\ \E calls \in HandleCalls :
       LET st == notifySubscribers(calls) IN
         /\ subscribers' = st.subs
         /\ unsubscribed' = st.unsub
         /\ late' = st.late
         /\ notified' = st.inv
  /\ UNCHANGED <<appVars, mailVars, impl, hasConfig, initialized, isOffline, isOnline, listeners,
                 localStorage, remote, pcInit, initResult, storageFull>>


\* ------------------------------------------------------- write operations
\* One entry of ops per call of a write method:
\*   m    method name              c, id  collection and record id
\*   arg  the record (add) or the partial record (update)
\*   pc   "upload" (in uploadAttachments), "remote" (setDoc/updateDoc sent),
\*        "acked" (remote commit done, continuation not yet run), "done"
\*   atts attachments processed so far by uploadAttachments
\*   given  the attachment list passed to uploadAttachments
\*   sentUp the files handed to uploadString, in order
\*   upAt   the list positions of those files, in the order of the calls
\*   upFailed  an uploadString / getDownloadURL of this write raised
\*   inFlight  uploads of this write that were started and have not settled
\*   res  outcome towards the caller: "pending", "resolved", "rejected"
\*   rem  remote commit of this write: "none", "sent", "ok", "failed"
\*   applied  the method has made its change to this.data
\*   degradedAtCall  the mode read as degraded when the method was called
\*   concurrent  an earlier write was still in flight when the method was called
\*   raced  a snapshot replaced the collection while the write was in flight
\*   misuse  the caller passed an id it should not: an add of an id that
\*           was not new (stored locally or remotely, or given to an earlier
\*           add), or an update of an id the local store does not hold
AddMethods == {"addOrganization", "addUser", "addCustomer", "addPlan"}

Degraded == IF impl = "mockDb" THEN isOffline ELSE ~isOnline

HasId(col, id) == \E i \in DOMAIN col : col[i].id = id

NewOp(m, c, id, arg) ==
  [m |-> m, c |-> c, id |-> id, arg |-> arg, pc |-> "remote", atts |-> <<>>,
   given |-> <<>>, sentUp |-> <<>>, upAt |-> <<>>, upFailed |-> FALSE,
   inFlight |-> 0,
   res |-> "pending", rem |-> "sent", applied |-> FALSE,
   degradedAtCall |-> Degraded,
   concurrent |-> \E o \in DOMAIN ops : ops[o].pc # "done",
   raced |-> FALSE,
   misuse |-> IF m \in AddMethods
              THEN \/ HasId(data[c], id)
                   \/ id \in DOMAIN remote[c]
                   \/ \E o \in DOMAIN ops :
                        ops[o].m \in AddMethods /\ ops[o].c = c /\ ops[o].id = id
              ELSE ~HasId(data[c], id)]

Finished(op, res, rem) == [op EXCEPT !.pc = "done", !.res = res, !.rem = rem]

\* the effect of a write on the local collections
ApplyLocal(d, op) ==
  IF op.m \in AddMethods THEN Push(d, op.c, op.arg)
  ELSE MapUpdate(d, op.c, op.id, op.arg)

\* ops with the entry of call o set to x (a new call: appended)
PutOp(o, x) == IF o \in DOMAIN ops THEN [ops EXCEPT ![o] = x] ELSE Append(ops, x)

\* mockDb.ts, the tail shared by all write methods, entered with the local
\* change d2 already made:
\*   if (this.isOffline) { this.saveToLocal(); } else { try { await <remote> } ... }
\* o is the position of this call's entry in ops.
mockDb_afterLocal(d2, op, o) ==
  /\ data' = d2
  /\ IF isOffline
     THEN /\ localStorage' = saveToLocal(isOffline, d2, ~storageFull, localStorage)
          /\ ops' = PutOp(o, [Finished(op, "resolved", "none")
                                EXCEPT !.applied = TRUE])
     ELSE /\ ops' = PutOp(o, [op EXCEPT !.pc = "remote", !.rem = "sent",
                                       !.applied = TRUE])
          /\ UNCHANGED localStorage
  /\ UNCHANGED <<appVars, mailVars, obsVars, impl, hasConfig, initialized, isOffline, isOnline, listeners,
                 remote, pcInit, initResult, storageFull>>

mockDb_CanCall == impl = "mockDb" /\ initialized /\ Len(ops) < MaxWrites

\* addOrganization / addUser / addCustomer / updateOrganization / updateUser
mockDb_write(m, c, id, arg) ==
  /\ mockDb_CanCall
  /\ LET op == NewOp(m, c, id, arg)
     IN  mockDb_afterLocal(ApplyLocal(data, op), op, Len(ops) + 1)

mockDb_addOrganization(org) ==
  /\ impl = "mockDb"
  /\ mockDb_write("addOrganization", "organizations", org.id, org)

mockDb_updateOrganization(id, updates) ==
  /\ impl = "mockDb"
  /\ mockDb_write("updateOrganization", "organizations", id, updates)

mockDb_addUser(user) ==
  /\ impl = "mockDb"
  /\ mockDb_write("addUser", "users", user.id, user)

mockDb_updateUser(userId, updates) ==
  /\ impl = "mockDb"
  /\ mockDb_write("updateUser", "users", userId, updates)

mockDb_addCustomer(customer) ==
  /\ impl = "mockDb"
  /\ mockDb_write("addCustomer", "customers", customer.id, customer)

\* uploadAttachments up to its first await: an empty list and the offline
\* mode return at once
mockDb_uploadStart(attachments) ==
  IF attachments = <<>> \/ isOffline THEN attachments ELSE <<>>

\* addPlan up to `await this.uploadAttachments(plan.attachments)`
mockDb_addPlan(plan) ==
  /\ mockDb_CanCall
  /\ ops' = Append(ops, [NewOp("addPlan", "plans", plan.id, plan) EXCEPT
                           !.pc = "upload", !.rem = "none",
                           !.given = plan.attachments,
                           !.atts = mockDb_uploadStart(plan.attachments)])
  /\ UNCHANGED <<appVars, mailVars, obsVars, impl, hasConfig, data, initialized, isOffline, isOnline,
                 listeners, localStorage, remote, pcInit, initResult,
                 storageFull>>

\* updatePlan: with updates.attachments it awaits uploadAttachments first,
\* without it goes on like the other update methods
mockDb_updatePlan(planId, updates) ==
  IF "attachments" \in DOMAIN updates
  THEN /\ mockDb_CanCall
       /\ ops' = Append(ops, [NewOp("updatePlan", "plans", planId, updates) EXCEPT
                                !.pc = "upload", !.rem = "none",
                                !.given = updates.attachments,
                                !.atts = mockDb_uploadStart(updates.attachments)])
       /\ UNCHANGED <<appVars, mailVars, obsVars, impl, hasConfig, data, initialized, isOffline, isOnline,
                      listeners, localStorage, remote, pcInit, initResult,
                      storageFull>>
  ELSE mockDb_write("updatePlan", "plans", planId, updates)

\* the loop of uploadAttachments: the file the next iteration takes
NextFile(op) == op.arg.attachments[Len(op.atts) + op.inFlight + 1]

Uploaded(file) == [file EXCEPT !.data = "http_uploaded"]

\* what an iteration pushes, were a file that is a URL uploaded like the
\* others
mockDb_uploadOne_all(file, ok) == IF ok THEN Uploaded(file) ELSE file

\* what an iteration pushes; ok = uploadString and getDownloadURL did not
\* raise
mockDb_uploadOne(file, ok) ==
  IF IsUrl(file.data) THEN file
  ELSE IF ok THEN Uploaded(file)
  ELSE file

\* the loop, were the uploads started without awaiting the one before
UploadMayStart_parallel(op) == TRUE

\* `await uploadString(..)`: the loop goes on to the next file only when the
\* upload it started has settled
UploadMayStart(op) == op.inFlight = 0

\* an iteration of the loop begins: a file that is a URL is pushed at once,
\* any other is handed to uploadString
mockDb_upload(o) ==
  /\ impl = "mockDb"
  /\ o \in DOMAIN ops
  /\ ops[o].pc = "upload"
  /\ Len(ops[o].atts) + ops[o].inFlight < Len(ops[o].arg.attachments)
  /\ UploadMayStart(ops[o])
  /\ LET file == NextFile(ops[o]) IN
       IF IsUrl(file.data)
       THEN ops' = [ops EXCEPT ![o].atts = Append(@, mockDb_uploadOne(file, TRUE))]
       ELSE ops' = [ops EXCEPT
                      ![o].sentUp = Append(@, file),
                      ![o].upAt = Append(@, Len(ops[o].atts) + ops[o].inFlight + 1),
                      ![o].inFlight = @ + 1]
  /\ UNCHANGED <<appVars, mailVars, obsVars, impl, hasConfig, data, initialized, isOffline, isOnline,
                 listeners, localStorage, remote, pcInit, initResult,
                 storageFull>>

\* the upload that was started has settled: uploadString and getDownloadURL
\* returned (ok) or one of them raised, which is caught and logged
mockDb_uploadSettled(o) ==
  /\ impl = "mockDb"
  /\ o \in DOMAIN ops
  /\ ops[o].pc = "upload"
  /\ ops[o].inFlight > 0
  /\ \E ok \in BOOLEAN :
       LET file == ops[o].arg.attachments[Len(ops[o].atts) + 1] IN
         ops' = [ops EXCEPT
                   ![o].atts = Append(@, mockDb_uploadOne(file, ok)),
                   ![o].inFlight = @ - 1,
                   ![o].upFailed = @ \/ ~ok]
  /\ UNCHANGED <<appVars, mailVars, obsVars, impl, hasConfig, data, initialized, isOffline, isOnline,
                 listeners, localStorage, remote, pcInit, initResult,
                 storageFull>>

\* addPlan / updatePlan after uploadAttachments returned
mockDb_planContinue(o) ==
  /\ impl = "mockDb"
  /\ o \in DOMAIN ops
  /\ ops[o].pc = "upload"
  /\ Len(ops[o].atts) = Len(ops[o].arg.attachments)
  /\ LET op == [ops[o] EXCEPT !.arg = [@ EXCEPT !.attachments = ops[o].atts]]
     IN  mockDb_afterLocal(ApplyLocal(data, op), op, o)

\* The remote store commits the setDoc / updateDoc of write o; updateDoc
\* needs an existing document.  In mockDb.ts nothing follows the await inside
\* the try block, so the write method returns with the commit; in part_001
\* the continuation runs later (part001_resume).
RemoteCommit(o) ==
  /\ hasConfig
  /\ o \in DOMAIN ops
  /\ ops[o].pc = "remote"
  /\ LET op == ops[o] IN
       IF op.m \in AddMethods
       THEN remote' = SetDoc(remote, op.c, op.id, op.arg)
       ELSE /\ op.id \in DOMAIN remote[op.c]
            /\ remote' = UpdateDoc(remote, op.c, op.id, op.arg)
  /\ IF impl = "mockDb"
     THEN ops' = [ops EXCEPT ![o] = Finished(@, "resolved", "ok")]
     ELSE ops' = [ops EXCEPT ![o].pc = "acked", ![o].rem = "ok"]
  /\ UNCHANGED <<appVars, mailVars, obsVars, impl, hasConfig, data, initialized, isOffline, isOnline,
                 listeners, localStorage, pcInit, initResult, storageFull>>

\* mockDb.ts: catch (e) { this.isOffline = true; this.saveToLocal(); }
mockDb_catch(o) ==
  /\ impl = "mockDb"
  /\ o \in DOMAIN ops
  /\ ops[o].pc = "remote"
  /\ isOffline' = TRUE
  /\ localStorage' = saveToLocal(TRUE, data, ~storageFull, localStorage)
  /\ ops' = [ops EXCEPT ![o] = Finished(@, "resolved", "failed")]
  /\ UNCHANGED <<appVars, mailVars, obsVars, impl, hasConfig, data, initialized, isOnline, listeners,
                 remote, pcInit, initResult, storageFull>>


\* ------------------------------------------------- part_001: write methods
\* The caller has called init() (it resolved or rejected) before writing.
part001_CanCall == impl = "part001" /\ initResult # "none" /\ Len(ops) < MaxWrites

\* addOrganization / addUser / addCustomer / updateOrganization / updateUser
\* up to `await setDoc(..)` / `await updateDoc(..)`
part001_write(m, c, id, arg) ==
  /\ part001_CanCall
  /\ ops' = Append(ops, NewOp(m, c, id, arg))
  /\ UNCHANGED <<appVars, mailVars, obsVars, impl, hasConfig, data, initialized, isOffline, isOnline,
                 listeners, localStorage, remote, pcInit, initResult,
                 storageFull>>

part001_addOrganization(org) ==
  /\ impl = "part001"
  /\ part001_write("addOrganization", "organizations", org.id, org)

part001_updateOrganization(id, updates) ==
  /\ impl = "part001"
  /\ part001_write("updateOrganization", "organizations", id, updates)

part001_addUser(user) ==
  /\ impl = "part001"
  /\ part001_write("addUser", "users", user.id, user)

part001_updateUser(userId, updates) ==
  /\ impl = "part001"
  /\ part001_write("updateUser", "users", userId, updates)

part001_addCustomer(customer) ==
  /\ impl = "part001"
  /\ part001_write("addCustomer", "customers", customer.id, customer)

\* a plan write up to the first await of uploadAttachments: a non-empty list
\* raises at once when not online
part001_planCall(m, id, arg) ==
  /\ part001_CanCall
  /\ LET op == [NewOp(m, "plans", id, arg) EXCEPT !.pc = "upload", !.rem = "none",
                                                  !.given = arg.attachments]
     IN  IF arg.attachments # <<>> /\ ~isOnline
         THEN ops' = Append(ops, Finished(op, "rejected", "none"))
         ELSE ops' = Append(ops, op)
  /\ UNCHANGED <<appVars, mailVars, obsVars, impl, hasConfig, data, initialized, isOffline, isOnline,
                 listeners, localStorage, remote, pcInit, initResult,
                 storageFull>>

part001_addPlan(plan) ==
  /\ impl = "part001"
  /\ part001_planCall("addPlan", plan.id, plan)

part001_updatePlan(planId, updates) ==
  IF "attachments" \in DOMAIN updates
  THEN part001_planCall("updatePlan", planId, updates)
  ELSE part001_write("updatePlan", "plans", planId, updates)

\* one iteration of the loop of uploadAttachments: an upload error is
\* re-thrown and rejects the write
part001_upload(o) ==
  /\ impl = "part001"
  /\ o \in DOMAIN ops
  /\ ops[o].pc = "upload"
  /\ Len(ops[o].atts) < Len(ops[o].arg.attachments)
  /\ LET file == NextFile(ops[o]) IN
       IF IsUrl(file.data)
       THEN ops' = [ops EXCEPT ![o].atts = Append(@, file)]
       ELSE \E ok \in BOOLEAN :
              IF ok
              THEN ops' = [ops EXCEPT ![o].atts = Append(@, Uploaded(file)),
                                      ![o].sentUp = Append(@, file),
                                      ![o].upAt = Append(@, Len(ops[o].atts) + 1)]
              ELSE ops' = [ops EXCEPT
                             ![o] = [Finished(@, "rejected", "none") EXCEPT
                                       !.sentUp = Append(@, file),
                                       !.upAt = Append(@, Len(ops[o].atts) + 1),
                                       !.upFailed = TRUE]]
  /\ UNCHANGED <<appVars, mailVars, obsVars, impl, hasConfig, data, initialized, isOffline, isOnline,
                 listeners, localStorage, remote, pcInit, initResult,
                 storageFull>>

\* addPlan / updatePlan after uploadAttachments returned: the remote write
part001_planContinue(o) ==
  /\ impl = "part001"
  /\ o \in DOMAIN ops
  /\ ops[o].pc = "upload"
  /\ Len(ops[o].atts) = Len(ops[o].arg.attachments)
  /\ ops' = [ops EXCEPT ![o].arg = [@ EXCEPT !.attachments = ops[o].atts],
                        ![o].pc = "remote", ![o].rem = "sent"]
  /\ UNCHANGED <<appVars, mailVars, obsVars, impl, hasConfig, data, initialized, isOffline, isOnline,
                 listeners, localStorage, remote, pcInit, initResult,
                 storageFull>>

\* await setDoc/updateDoc returned: "Update local state only on success"
part001_resume(o) ==
  /\ impl = "part001"
  /\ o \in DOMAIN ops
  /\ ops[o].pc = "acked"
  /\ data' = ApplyLocal(data, ops[o])
  /\ ops' = [ops EXCEPT ![o] = [Finished(@, "resolved", "ok") EXCEPT !.applied = TRUE]]
  /\ notified' = {}
  /\ UNCHANGED <<appVars, mailVars, impl, hasConfig, initialized, isOffline, isOnline, listeners,
                 localStorage, remote, pcInit, initResult, storageFull,
                 subscribers, unsubscribed, late>>

\* await setDoc/updateDoc raised: the write method rejects
part001_throw(o) ==
  /\ impl = "part001"
  /\ o \in DOMAIN ops
  /\ ops[o].pc = "remote"
  /\ ops' = [ops EXCEPT ![o] = Finished(@, "rejected", "failed")]
  /\ UNCHANGED <<appVars, mailVars, obsVars, impl, hasConfig, data, initialized, isOffline, isOnline,
                 listeners, localStorage, remote, pcInit, initResult,
                 storageFull>>

\* ------------------------------------------------------------ App: login
\* o.name.toLowerCase() / orgName.trim().toLowerCase(), for the names used
Lower(name) == IF name = "Acme" THEN "acme" ELSE name

\* array.find: the position of the first element among those matching (0:
\* none); the Find operators give the element as <<element>>, or <<>>
FirstIndex(arr, matching) ==
  IF matching = {} THEN 0 ELSE CHOOSE i \in matching : \A j \in matching : i <= j

FindOrg(orgName) ==
  LET orgs == data.organizations
      i == FirstIndex(orgs, {j \in DOMAIN orgs : Lower(orgs[j].name) = Lower(orgName)})
  IN  IF i = 0 THEN <<>> ELSE <<orgs[i]>>

FindUser(org, email, pass) ==
  LET users == data.users
      i == FirstIndex(users, {j \in DOMAIN users :
                                /\ users[j].organizationId = org.id
                                /\ users[j].email = email
                                /\ users[j].password = pass})
  IN  IF i = 0 THEN <<>> ELSE <<users[i]>>

FindSuperAdmin ==
  LET users == data.users
      i == FirstIndex(users, {j \in DOMAIN users : users[j].role = "SUPER_ADMIN"})
  IN  IF i = 0 THEN <<>> ELSE <<users[i]>>

Failure(message) == [success |-> FALSE, message |-> message]
Success(user) == [success |-> TRUE, user |-> user]

\* the part of login after the organization check, the same in both files
loginUser(org, email, pass) ==
  LET found == FindUser(org, email, pass) IN
    IF found # <<>>
    THEN IF ~found[1].isApproved
         THEN Failure("Account locked or pending approval.")
         ELSE Success(found[1])
    ELSE Failure("Invalid User ID or Password for this Organization.")

\* unnamed/part_000: login(orgName, email, pass)
part000_login(orgName, email, pass) ==
  LET org == FindOrg(orgName) IN
    IF org = <<>> THEN Failure("Organization not found.")
    ELSE IF ~org[1].isApproved /\ org[1].id # SystemGlobalId
    THEN Failure("Organization is pending approval by Super Admin.")
    ELSE loginUser(org[1], email, pass)

\* the session user that part_002 makes up when no super-admin is stored
EphemeralAdmin(email) ==
  [id |-> SuperAdminId, email |-> email, role |-> "SUPER_ADMIN",
   organizationId |-> SystemGlobalId, isApproved |-> TRUE]

\* unnamed/part_002: login(orgName, email, pass)
part002_login(orgName, email, pass) ==
  IF email \in {superEmail, altEmail} /\ pass = superPassword
  THEN LET superAdmin == FindSuperAdmin IN
         Success(IF superAdmin = <<>> THEN EphemeralAdmin(email) ELSE superAdmin[1])
  ELSE LET org == FindOrg(orgName) IN
         IF org = <<>> THEN Failure("Organization not found.")
         ELSE IF ~org[1].isApproved
         THEN Failure("Organization is pending approval by Super Admin.")
         ELSE loginUser(org[1], email, pass)

Apps == {"part000", "part002"}
LoginNames == {"acme", "Nope"}
LoginEmails == {"user@acme.com", superEmail}
LoginPasswords == {"pw", superPassword}

\* a login attempt in the Login page of one of the two App files
app_login(app, orgName, email, pass) ==
  /\ impl = "mockDb"
  /\ loginResult' = [app |-> app, orgName |-> orgName, email |-> email,
                     result |-> IF app = "part000"
                                THEN part000_login(orgName, email, pass)
                                ELSE part002_login(orgName, email, pass)]
  /\ UNCHANGED <<dbVars, obsVars, mailVars, reinit>>

\* pages/Login.tsx, handleRegisterSubmit up to `await db.addOrganization`
NameTaken(name) ==
  \E i \in DOMAIN data.organizations :
    Lower(data.organizations[i].name) = Lower(name)

app_registerSubmit(org) ==
  /\ ~NameTaken(org.name)
  /\ mockDb_addOrganization(org)

\* handleRegisterSubmit after addOrganization returned: db.addUser of the
\* organization's admin
RegisteredAdmin(orgId) ==
  [id |-> orgId, email |-> "user@acme.com", password |-> "pw",
   role |-> "ORG_ADMIN", organizationId |-> orgId, isApproved |-> TRUE]

app_registerContinue(o) ==
  /\ o \in DOMAIN ops
  /\ ops[o].m = "addOrganization"
  /\ ops[o].res = "resolved"
  /\ \A o2 \in DOMAIN ops :
       ~(ops[o2].m = "addUser" /\ ops[o2].arg.organizationId = ops[o].id)
  /\ mockDb_addUser(RegisteredAdmin(ops[o].id))

\* ------------------------------------------ mailService.ts: envelope codec
APP_SECRET_KEY == "SALES_TRACKER_SECURE_KEY_V1"
SYNC_SUBJECT_PREFIX == "[ST_SYNC]"

\* the JavaScript value null
null == [kind |-> "null"]

\* the number 0, a JSON value that is falsy
Zero == [kind |-> "number", token |-> "0"]

\* if (data): null and 0 are falsy, objects are truthy
Truthy(v) == v # null /\ v # Zero

\* What JSON.stringify keeps of an object: a property whose value is
\* undefined is left out, the number NaN is written as null.
ObjectJSON(obj) ==
  [k \in {x \in DOMAIN obj : obj[x] # "undefined"} |->
     IF obj[k] = "NaN" THEN "null" ELSE obj[k]]

PacketJSON(p) ==
  [type |-> p.type, data |-> ObjectJSON(p.data), timestamp |-> p.timestamp,
   sender |-> p.sender]

\* CryptoJS.AES.encrypt with a passphrase draws a random salt
Salts == {"s1", "s2"}

\* the salts drawn by this session's own encrypt calls; the salt changes the
\* ciphertext only, never which message is built or whether it is sent
SendSalts == {"s1"}

\* encrypt, were the JSON text returned as it is
encrypt_plain(p, salt) == JSONstringify(PacketJSON(p))

\* encrypt: the ciphertext of JSON.stringify(data) under APP_SECRET_KEY
encrypt(p, salt) ==
  [kind |-> "aes", key |-> APP_SECRET_KEY, salt |-> salt,
   plain |-> JSONstringify(PacketJSON(p))]

\* decrypt: JSON.parse of the decrypted text; null when the text is no
\* ciphertext of this key (the bytes are no UTF-8 JSON text) or when
\* JSON.parse throws
decrypt(ciphertext) ==
  IF /\ ciphertext.kind = "aes"
     /\ ciphertext.key = APP_SECRET_KEY
     /\ ~ParseThrows(ciphertext.plain)
  THEN JSONparse(ciphertext.plain)
  ELSE null

\* texts that no encrypt of a packet produced: plain text, a ciphertext of
\* another key, ciphertexts of this key of a text that is no JSON and of
\* JSON values that are no packet (an object, the number 0)
ForeignBodies ==
  {[kind |-> "text"],
   [kind |-> "aes", key |-> "OTHER_KEY", salt |-> "s1",
    plain |-> JSONstringify([note |-> "hello"])],
   [kind |-> "aes", key |-> APP_SECRET_KEY, salt |-> "s1",
    plain |-> CorruptItem],
   [kind |-> "aes", key |-> APP_SECRET_KEY, salt |-> "s1",
    plain |-> JSONstringify([note |-> "hello"])],
   [kind |-> "aes", key |-> APP_SECRET_KEY, salt |-> "s1",
    plain |-> JSONstringify(Zero)]}

\* a value has the shape of a SyncPacket
IsSyncPacket(v) ==
  /\ DOMAIN v = {"type", "data", "timestamp", "sender"}
  /\ v.type \in PacketTypes

\* ------------------------------------------ mailService.ts: broadcastData
includesAt(e) == \E i \in DOMAIN e : e[i] = "@"

\* recipients, were it an array and add a push
SetAdd_push(set, e) == Append(set, e)

\* Set.add, the Set kept in insertion order
SetAdd(set, e) == IF e \in Range(set) THEN set ELSE Append(set, e)

\* the lists, were only their first entry added (list[0] for forEach)
AddAll_first(set, list) ==
  IF list = <<>> THEN set ELSE SetAdd(set, Head(list))

\* list.forEach(e => recipients.add(e))
RECURSIVE AddAll(_, _)
AddAll(set, list) ==
  IF list = <<>> THEN set ELSE AddAll(SetAdd(set, Head(list)), Tail(list))

\* if (h.xEmails) h.xEmails.forEach(...): an undefined list adds nothing
AddList(set, optList) ==
  IF optList = <<>> THEN set ELSE AddAll(set, optList[1])

\* the Set recipients, were the acting user's own address not added
Recipients_noSelf(u) ==
  IF u.hierarchy = <<>> THEN <<>>
  ELSE LET h == u.hierarchy[1]
           rsm == IF h.rsmEmail # <<>> /\ h.rsmEmail[1] # <<>>
                  THEN SetAdd(<<>>, h.rsmEmail[1]) ELSE <<>>
       IN  AddList(AddList(AddList(rsm, h.seEmails), h.dealerEmails),
                   h.dseEmails)

\* the Set recipients of broadcastData
Recipients(u) ==
  LET self == SetAdd(<<>>, u.email) IN
    IF u.hierarchy = <<>> THEN self
    ELSE LET h == u.hierarchy[1]
             rsm == IF h.rsmEmail # <<>> /\ h.rsmEmail[1] # <<>>
                    THEN SetAdd(self, h.rsmEmail[1]) ELSE self
         IN  AddList(AddList(AddList(rsm, h.seEmails), h.dealerEmails),
                     h.dseEmails)

\* e && e.includes('@')
IsValidAddress(e) == e # <<>> /\ includesAt(e)

\* the list, were the filter left out
RecipientList_unfiltered(u) == Recipients(u)

\* Array.from(recipients).filter(e => e && e.includes('@'))
RecipientList(u) == SelectSeq(Recipients(u), IsValidAddress)

\* `${SYNC_SUBJECT_PREFIX} ${packet.type} ${packet.timestamp}`
Subject(packet) == <<SYNC_SUBJECT_PREFIX, packet.type, packet.timestamp>>

\* sendEmail: the message handed to gmail.users.messages.send
sendEmail(to, subject, body) ==
  [to |-> to[1], bcc |-> to, subject |-> subject, body |-> body]

\* broadcastData(packet, actingUser).  outbox holds the messages handed to
\* gmail.users.messages.send, one per call of it; the call resolves ("sent")
\* or raises ("failed"), and broadcastData with it.
mail_broadcastData(packet, salt) ==
  /\ impl = "mailService"
  /\ IF ~accessToken
     THEN /\ sendResult' = "threw"
          /\ UNCHANGED outbox
     ELSE IF RecipientList(actingUser) = <<>>
     THEN /\ sendResult' = "returned"
          /\ UNCHANGED outbox
     ELSE /\ Len(outbox) < MaxSends
          /\ outbox' = Append(outbox,
               sendEmail(RecipientList(actingUser), Subject(packet),
                         encrypt(packet, salt)))
          /\ sendResult' \in {"sent", "failed"}
  /\ UNCHANGED <<appVars, dbVars, obsVars, authVars, gapiInited, accessToken, actingUser,
                 mailbox, fetched, fetchResult, discarded, delivered, redelivered>>

\* ---------------------------------------- mailService.ts: initialisation
\* gapi.client.init has resolved
mail_gapiLoaded ==
  /\ impl = "mailService"
  /\ ~gapiInited
  /\ gapiInited' = TRUE
  /\ UNCHANGED <<appVars, dbVars, obsVars, authVars, accessToken, actingUser, outbox, sendResult,
                 mailbox, fetched, fetchResult, discarded, delivered, redelivered>>

\* the token client's callback has stored an access token
mail_tokenGranted ==
  /\ impl = "mailService"
  /\ ~accessToken
  /\ accessToken' = TRUE
  /\ UNCHANGED <<appVars, dbVars, obsVars, authVars, gapiInited, actingUser, outbox, sendResult,
                 mailbox, fetched, fetchResult, discarded, delivered, redelivered>>

\* ------------------------------------------------ mailService.ts: signIn
\* signInCall: pc is "idle", "timer" (a setTimeout is pending), "consent"
\* (requestAccessToken was called), "profile" (getProfile was called) or
\* "done"; res is the state of the promise the caller holds; nested: the
\* caller's promise is resolved by `this.signIn().then(resolve)` of a timer.

\* signIn() up to its return
mail_signIn ==
  /\ impl = "mailService"
  /\ signInCall.pc = "idle"
  /\ signInCall' = [signInCall EXCEPT
                      !.pc = IF ~gisInited THEN "timer" ELSE "consent",
                      !.res = "pending"]
  /\ UNCHANGED <<appVars, dbVars, obsVars, gisInited, gapiInited, accessToken,
                 actingUser, outbox, sendResult, mailbox, fetched,
                 fetchResult, discarded, delivered, redelivered>>

\* the timer fires: this.signIn().then(resolve), 500 ms after the call
mail_signInTimer ==
  /\ impl = "mailService"
  /\ signInCall.pc = "timer"
  /\ signInCall.timers < MaxTimers
  /\ signInCall' = [signInCall EXCEPT
                      !.pc = IF ~gisInited THEN "timer" ELSE "consent",
                      !.timers = @ + 1,
                      !.nested = TRUE]
  /\ UNCHANGED <<appVars, dbVars, obsVars, gisInited, gapiInited, accessToken,
                 actingUser, outbox, sendResult, mailbox, fetched,
                 fetchResult, discarded, delivered, redelivered>>

\* reject(...) of the promise of the signIn call that runs the callback: a
\* settled promise stays as it is; the promise of an outer call, which is
\* attached by then(resolve) only, is not rejected with it
Reject(call) ==
  IF call.res = "pending" /\ ~call.nested THEN [call EXCEPT !.res = "rejected"]
  ELSE call

Resolve(call) ==
  IF call.res = "pending" THEN [call EXCEPT !.res = "resolved"] ELSE call

\* tokenClient.callback(resp) up to `await getProfile`.  granted: resp
\* holds no error and an access_token; otherwise resp.access_token is
\* undefined.
mail_consent(granted) ==
  /\ impl = "mailService"
  /\ signInCall.pc = "consent"
  /\ signInCall' = [(IF granted THEN signInCall ELSE Reject(signInCall))
                      EXCEPT !.pc = "profile"]
  /\ accessToken' = granted
  /\ UNCHANGED <<appVars, dbVars, obsVars, gisInited, gapiInited, actingUser, outbox,
                 sendResult, mailbox, fetched, fetchResult, discarded, delivered,
                 redelivered>>

\* getProfile has settled: resolve({email, token}) or reject(e)
mail_profile(ok) ==
  /\ impl = "mailService"
  /\ signInCall.pc = "profile"
  /\ signInCall' = [(IF ok THEN Resolve(signInCall) ELSE Reject(signInCall))
                      EXCEPT !.pc = "done"]
  /\ UNCHANGED <<appVars, dbVars, obsVars, gisInited, gapiInited, accessToken,
                 actingUser, outbox, sendResult, mailbox, fetched,
                 fetchResult, discarded, delivered, redelivered>>

\* --------------------------------------- mailService.ts: fetchLatestData
\* What may arrive in the mailbox under the tag: the envelope a peer's
\* broadcast made of packet origin, or a foreign text (origin = null).  The
\* packets received are the plain ones of every type and the PLAN packets of
\* every payload.
ReceivedPackets == {p \in Packets : p.type = "PLAN"} \cup BroadcastPackets

Incoming ==
  {[body |-> encrypt(p, salt), origin |-> p] :
     p \in ReceivedPackets, salt \in Salts}
    \cup {[body |-> b, origin |-> null] : b \in ForeignBodies}

\* A tagged message arrives.  inPayload: the provider returns the body in
\* payload.body.data; otherwise only the snippet is there.
mail_deliver(m, inPayload) ==
  /\ impl = "mailService"
  /\ Len(mailbox) < MaxMail
  /\ mailbox' = Append(mailbox, [id |-> Len(mailbox) + 1, body |-> m.body,
                                  inPayload |-> inPayload, origin |-> m.origin])
  /\ UNCHANGED <<appVars, dbVars, obsVars, authVars, gapiInited, accessToken, actingUser, outbox,
                 sendResult, fetched, fetchResult, discarded, delivered, redelivered>>

\* payload.body.data as the provider encodes it, and its decoding
\* atob(data.replace(/-/g, '+').replace(/_/g, '/'))
Base64Url(text) == [kind |-> "base64url", of |-> text]
atob(b64) == b64.of

\* detail.result.snippet: the shortened preview of the body
Snippet(text) == [kind |-> "truncated"]

\* the body text fetchLatestData extracts from a message
BodyOf(msg) ==
  IF msg.inPayload THEN atob(Base64Url(msg.body)) ELSE Snippet(msg.body)

\* the first result page of messages.list
FirstPage ==
  SubSeq(mailbox, 1, IF Len(mailbox) < PageSize THEN Len(mailbox) ELSE PageSize)

\* the loop of fetchLatestData, were it to end at the first message whose
\* body does not decode
DecodeFrom_break(page, i) ==
  LET bad  == {j \in i..Len(page) : ~Truthy(decrypt(BodyOf(page[j])))}
      last == IF bad = {} THEN Len(page)
              ELSE (CHOOSE j \in bad : \A k \in bad : j <= k) - 1
  IN  [j \in 1..(last - i + 1) |->
         [id |-> page[i + j - 1].id, data |-> decrypt(BodyOf(page[i + j - 1]))]]

\* the loop of fetchLatestData over messages i..: the packets pushed, each
\* with the id of its message
RECURSIVE DecodeFrom(_, _)
DecodeFrom(page, i) ==
  IF i > Len(page) THEN <<>>
  ELSE LET d == decrypt(BodyOf(page[i])) IN
         IF Truthy(d)
         THEN <<[id |-> page[i].id, data |-> d]>> \o DecodeFrom(page, i + 1)
         ELSE DecodeFrom(page, i + 1)

IdsOf(entries) == {entries[i].id : i \in DOMAIN entries}

\* the catch block of fetchLatestData, were it to hand back what the loop
\* had pushed
CatchFetch_partial(packets) == [value |-> packets, result |-> "failed"]

\* the catch block of fetchLatestData: the error is logged and [] returned,
\* whatever the loop had pushed
CatchFetch(packets) == [value |-> <<>>, result |-> "failed"]

\* fetchLatestData().  The transport may raise at messages.list (k = 0) or
\* at the messages.get of the k-th message, after the loop has gone through
\* the k - 1 messages before it; either is caught.
mail_fetchLatestData ==
  /\ impl = "mailService"
  /\ IF ~gapiInited \/ ~accessToken
     THEN /\ fetched' = <<>>
          /\ fetchResult' = "unauthenticated"
          /\ discarded' = <<>>
          /\ UNCHANGED <<delivered, redelivered>>
     ELSE \/ \E k \in 0..Len(FirstPage) :
               LET pushed == IF k = 0 THEN <<>>
                             ELSE DecodeFrom(SubSeq(FirstPage, 1, k - 1), 1)
                   caught == CatchFetch(pushed)
               IN  /\ fetched' = caught.value
                   /\ fetchResult' = caught.result
                   /\ discarded' = pushed
                   /\ UNCHANGED <<delivered, redelivered>>
          \/ LET packets == DecodeFrom(FirstPage, 1) IN
               /\ fetched' = packets
               /\ fetchResult' = "ok"
               /\ discarded' = <<>>
               /\ delivered' = delivered \cup IdsOf(packets)
               /\ redelivered' = redelivered \cup (delivered \cap IdsOf(packets))
  /\ UNCHANGED <<appVars, dbVars, obsVars, authVars, gapiInited, accessToken, actingUser, outbox,
                 sendResult, mailbox>>

\* ------------------------------------------------------------- behaviours
OpIds == 1..MaxWrites

Next ==
  \/ mockDb_init
  \/ mockDb_initLoaded
  \/ mockDb_initFailed
  \/ \E org \in NewOrganizations : mockDb_addOrganization(org)
  \/ \E id \in Ids, u \in OrganizationUpdates : mockDb_updateOrganization(id, u)
  \/ \E user \in NewUsers : mockDb_addUser(user)
  \/ \E id \in Ids, u \in UserUpdates : mockDb_updateUser(id, u)
  \/ \E customer \in NewCustomers : mockDb_addCustomer(customer)
  \/ \E plan \in NewPlans : mockDb_addPlan(plan)
  \/ \E id \in Ids, u \in PlanUpdates : mockDb_updatePlan(id, u)
  \/ \E o \in OpIds : mockDb_upload(o)
  \/ \E o \in OpIds : mockDb_uploadSettled(o)
  \/ \E o \in OpIds : mockDb_planContinue(o)
  \/ \E o \in OpIds : RemoteCommit(o)
  \/ \E o \in OpIds : mockDb_catch(o)
  \/ part001_init
  \/ \E c \in Collections : part001_onSnapshot(c)
  \/ \E org \in NewOrganizations : part001_addOrganization(org)
  \/ \E id \in Ids, u \in OrganizationUpdates : part001_updateOrganization(id, u)
  \/ \E user \in NewUsers : part001_addUser(user)
  \/ \E id \in Ids, u \in UserUpdates : part001_updateUser(id, u)
  \/ \E customer \in NewCustomers : part001_addCustomer(customer)
  \/ \E plan \in NewPlans : part001_addPlan(plan)
  \/ \E id \in Ids, u \in PlanUpdates : part001_updatePlan(id, u)
  \/ \E o \in OpIds : part001_upload(o)
  \/ \E o \in OpIds : part001_planContinue(o)
  \/ \E o \in OpIds : part001_resume(o)
  \/ \E o \in OpIds : part001_throw(o)

Spec == Init /\ [][Next]_vars

\* services/mockDb.ts alone
NextMockDb ==
  \/ mockDb_init
  \/ mockDb_initLoaded
  \/ mockDb_initFailed
  \/ \E org \in NewOrganizations : mockDb_addOrganization(org)
  \/ \E id \in Ids, u \in OrganizationUpdates : mockDb_updateOrganization(id, u)
  \/ \E user \in NewUsers : mockDb_addUser(user)
  \/ \E id \in Ids, u \in UserUpdates : mockDb_updateUser(id, u)
  \/ \E customer \in NewCustomers : mockDb_addCustomer(customer)
  \/ \E plan \in NewPlans : mockDb_addPlan(plan)
  \/ \E id \in Ids, u \in PlanUpdates : mockDb_updatePlan(id, u)
  \/ \E o \in OpIds : mockDb_upload(o)
  \/ \E o \in OpIds : mockDb_uploadSettled(o)
  \/ \E o \in OpIds : mockDb_planContinue(o)
  \/ \E o \in OpIds : RemoteCommit(o)
  \/ \E o \in OpIds : mockDb_catch(o)

SpecMockDb == InitFor("mockDb") /\ [][NextMockDb]_vars

\* services/mockDb.ts, start-up: init() and the writes of the user collection
NextStartup ==
  \/ mockDb_init
  \/ mockDb_initLoaded
  \/ mockDb_initFailed
  \/ \E user \in NewUsers : mockDb_addUser(user)
  \/ \E id \in Ids, u \in UserUpdates : mockDb_updateUser(id, u)
  \/ \E o \in OpIds : RemoteCommit(o)
  \/ \E o \in OpIds : mockDb_catch(o)

SpecStartup == InitFor("mockDb") /\ [][NextStartup]_vars

\* services/mockDb.ts, demotion: init() and the writes of the organization
\* collection with their remote commits and failures
NextDemotion ==
  \/ mockDb_init
  \/ mockDb_initLoaded
  \/ mockDb_initFailed
  \/ \E org \in NewOrganizations : mockDb_addOrganization(org)
  \/ \E id \in Ids, u \in OrganizationUpdates : mockDb_updateOrganization(id, u)
  \/ \E o \in OpIds : RemoteCommit(o)
  \/ \E o \in OpIds : mockDb_catch(o)

SpecDemotion == InitFor("mockDb") /\ [][NextDemotion]_vars

\* init() of both classes, called again after it completed, next to the
\* writes of the user collection
NextInit ==
  \/ mockDb_init
  \/ mockDb_initLoaded
  \/ mockDb_initFailed
  \/ part001_init
  \/ app_initAgain
  \/ \E c \in Collections : part001_onSnapshot(c)
  \/ \E user \in NewUsers : mockDb_addUser(user)
  \/ \E user \in NewUsers : part001_addUser(user)
  \/ \E o \in OpIds : RemoteCommit(o)
  \/ \E o \in OpIds : mockDb_catch(o)
  \/ \E o \in OpIds : part001_resume(o)
  \/ \E o \in OpIds : part001_throw(o)

SpecInit == Init /\ [][NextInit]_vars

\* unnamed/part_001 alone
NextPart001 ==
  \/ part001_init
  \/ \E c \in Collections : part001_onSnapshot(c)
  \/ \E org \in NewOrganizations : part001_addOrganization(org)
  \/ \E id \in Ids, u \in OrganizationUpdates : part001_updateOrganization(id, u)
  \/ \E user \in NewUsers : part001_addUser(user)
  \/ \E id \in Ids, u \in UserUpdates : part001_updateUser(id, u)
  \/ \E customer \in NewCustomers : part001_addCustomer(customer)
  \/ \E plan \in NewPlans : part001_addPlan(plan)
  \/ \E id \in Ids, u \in PlanUpdates : part001_updatePlan(id, u)
  \/ \E o \in OpIds : part001_upload(o)
  \/ \E o \in OpIds : part001_planContinue(o)
  \/ \E o \in OpIds : RemoteCommit(o)
  \/ \E o \in OpIds : part001_resume(o)
  \/ \E o \in OpIds : part001_throw(o)

SpecPart001 == InitFor("part001") /\ [][NextPart001]_vars

\* the plan writes of both classes
NextPlans ==
  \/ mockDb_init
  \/ mockDb_initLoaded
  \/ mockDb_initFailed
  \/ \E plan \in NewPlans : mockDb_addPlan(plan)
  \/ \E id \in Ids, u \in PlanUpdates : mockDb_updatePlan(id, u)
  \/ \E o \in OpIds : mockDb_upload(o)
  \/ \E o \in OpIds : mockDb_uploadSettled(o)
  \/ \E o \in OpIds : mockDb_planContinue(o)
  \/ \E o \in OpIds : mockDb_catch(o)
  \/ part001_init
  \/ \E plan \in NewPlans : part001_addPlan(plan)
  \/ \E id \in Ids, u \in PlanUpdates : part001_updatePlan(id, u)
  \/ \E o \in OpIds : part001_upload(o)
  \/ \E o \in OpIds : part001_planContinue(o)
  \/ \E o \in OpIds : RemoteCommit(o)
  \/ \E o \in OpIds : part001_resume(o)
  \/ \E o \in OpIds : part001_throw(o)

SpecPlans == Init /\ [][NextPlans]_vars

\* the plan writes of services/mockDb.ts
NextUploads ==
  \/ mockDb_init
  \/ mockDb_initLoaded
  \/ mockDb_initFailed
  \/ \E plan \in NewPlans : mockDb_addPlan(plan)
  \/ \E id \in Ids, u \in PlanUpdates : mockDb_updatePlan(id, u)
  \/ \E o \in OpIds : mockDb_upload(o)
  \/ \E o \in OpIds : mockDb_uploadSettled(o)
  \/ \E o \in OpIds : mockDb_planContinue(o)
  \/ \E o \in OpIds : RemoteCommit(o)
  \/ \E o \in OpIds : mockDb_catch(o)

SpecUploads == InitFor("mockDb") /\ [][NextUploads]_vars

\* the update methods of both classes, on records that init() loaded or
\* addUser stored
NextUpdates ==
  \/ mockDb_init
  \/ mockDb_initLoaded
  \/ mockDb_initFailed
  \/ \E user \in NewUsers : mockDb_addUser(user)
  \/ \E id \in Ids, u \in OrganizationUpdates : mockDb_updateOrganization(id, u)
  \/ \E id \in Ids, u \in UserUpdates : mockDb_updateUser(id, u)
  \/ \E id \in Ids, u \in PlanUpdates : mockDb_updatePlan(id, u)
  \/ \E o \in OpIds : mockDb_upload(o)
  \/ \E o \in OpIds : mockDb_uploadSettled(o)
  \/ \E o \in OpIds : mockDb_planContinue(o)
  \/ \E o \in OpIds : mockDb_catch(o)
  \/ part001_init
  \/ \E c \in Collections : part001_onSnapshot(c)
  \/ \E user \in NewUsers : part001_addUser(user)
  \/ \E id \in Ids, u \in OrganizationUpdates : part001_updateOrganization(id, u)
  \/ \E id \in Ids, u \in UserUpdates : part001_updateUser(id, u)
  \/ \E id \in Ids, u \in PlanUpdates : part001_updatePlan(id, u)
  \/ \E o \in OpIds : part001_upload(o)
  \/ \E o \in OpIds : part001_planContinue(o)
  \/ \E o \in OpIds : RemoteCommit(o)
  \/ \E o \in OpIds : part001_resume(o)
  \/ \E o \in OpIds : part001_throw(o)

SpecUpdates == Init /\ [][NextUpdates]_vars

\* part_001 with observers: registration, deregistration, the snapshot
\* callbacks and the writes of two collections (organizations, customers)
NextObservers ==
  \/ part001_init
  \/ \E ob \in Observers : part001_subscribe(ob)
  \/ \E ob \in Observers : part001_unsubscribe(ob)
  \/ \E c \in Collections : part001_onSnapshot(c)
  \/ \E org \in NewOrganizations : part001_addOrganization(org)
  \/ \E id \in Ids, u \in OrganizationUpdates : part001_updateOrganization(id, u)
  \/ \E customer \in NewCustomers : part001_addCustomer(customer)
  \/ \E o \in OpIds : RemoteCommit(o)
  \/ \E o \in OpIds : part001_resume(o)
  \/ \E o \in OpIds : part001_throw(o)

SpecObservers == InitFor("part001") /\ [][NextObservers]_vars

\* the Login page over services/mockDb.ts: registration, approval by the
\* super-admin, login attempts
NextLogin ==
  \/ mockDb_init
  \/ mockDb_initLoaded
  \/ mockDb_initFailed
  \/ \E org \in NewOrganizations : app_registerSubmit(org)
  \/ \E o \in OpIds : app_registerContinue(o)
  \/ \E id \in Ids, u \in OrganizationUpdates : mockDb_updateOrganization(id, u)
  \/ \E o \in OpIds : RemoteCommit(o)
  \/ \E o \in OpIds : mockDb_catch(o)
  \/ \E app \in Apps, orgName \in LoginNames, email \in LoginEmails,
        pass \in LoginPasswords : app_login(app, orgName, email, pass)

SpecLogin == InitFor("mockDb") /\ [][NextLogin]_vars

\* services/mailService.ts.  The database service is not used.
MailInitWith(U, G) ==
  /\ impl = "mailService"
  /\ hasConfig = FALSE
  /\ data = INITIAL_DATA
  /\ initialized = FALSE
  /\ isOffline = FALSE
  /\ isOnline = FALSE
  /\ listeners = {}
  /\ localStorage = NoItem
  /\ remote = EmptyRemote
  /\ pcInit = 0
  /\ initResult = "none"
  /\ ops = <<>>
  /\ storageFull = FALSE
  /\ subscribers = <<>>
  /\ unsubscribed = {}
  /\ notified = {}
  /\ late = {}
  /\ loginResult = NoLogin
  /\ reinit = FALSE
  /\ MailStartWith(U, G)

MailInit(U) == MailInitWith(U, {TRUE})

\* the receiving side: messages arrive and are fetched
NextMail ==
  \/ mail_gapiLoaded
  \/ mail_tokenGranted
  \/ \E m \in Incoming, inPayload \in BOOLEAN : mail_deliver(m, inPayload)
  \/ mail_fetchLatestData

SpecMail == MailInit({Receiver}) /\ [][NextMail]_vars

\* the sending side: any acting user broadcasts
NextBroadcast ==
  \/ mail_tokenGranted
  \/ \E packet \in BroadcastPackets, salt \in SendSalts :
       mail_broadcastData(packet, salt)

SpecBroadcast == MailInit(Users) /\ [][NextBroadcast]_vars

\* signing in, and broadcasting afterwards
SignInUsers == {u \in Users : u.hierarchy = <<>>}

NextSignIn ==
  \/ mail_signIn
  \/ mail_signInTimer
  \/ \E granted \in BOOLEAN : mail_consent(granted)
  \/ \E ok \in BOOLEAN : mail_profile(ok)
  \/ \E packet \in BroadcastPackets, salt \in SendSalts :
       mail_broadcastData(packet, salt)

SpecSignIn == MailInitWith(SignInUsers, BOOLEAN) /\ [][NextSignIn]_vars


\* ================================================================= claims
Connected == /\ initResult \notin {"none", "pending"}
             /\ ~Degraded

\* the local store has the change of write op: the record of an add is
\* present, the map of an update has run
AppliedLocally(op) ==
  /\ op.applied
  /\ op.m \in AddMethods => HasId(data[op.c], op.id)

LocalIndexes(c, id) == {i \in DOMAIN data[c] : data[c][i].id = id}

AllDone == \A o \in DOMAIN ops : ops[o].pc = "done"

\* the snapshot the storage item holds (nothing stored or unparsable: the
\* empty seeded snapshot)
StoredSnapshot ==
  IF ParseThrows(localStorage) THEN INITIAL_DATA ELSE JSONparse(localStorage)

\* the local store is the stored snapshot, the bootstrap super-admin apart
HoldsStoredSnapshot ==
  /\ \A c \in Collections \ {"users"} : data[c] = StoredSnapshot[c]
  /\ \/ data.users = StoredSnapshot.users
     \/ data.users = Append(StoredSnapshot.users, BootstrapAdmin)

\* C1: a write issued in connected mode whose remote commit failed has, once
\* it finished, its record in the local store (add) or its fields on the
\* local record (update).
C1_FailedWriteKeptLocally ==
  \A o \in DOMAIN ops :
    (ops[o].pc = "done" /\ ops[o].rem = "failed" /\ ~ops[o].degradedAtCall)
      => AppliedLocally(ops[o])

\* C2: when all writes were issued in connected mode (adds with new ids,
\* updates of records the local store holds), all remote commits succeeded
\* and all writes have completed, every touched id has exactly one local
\* record, equal to the remote document.
C2_LocalEqualsRemote ==
  (/\ ops # <<>>
   /\ AllDone
   /\ \A o \in DOMAIN ops :
        ops[o].rem = "ok" /\ ~ops[o].degradedAtCall /\ ~ops[o].misuse)
    => \A o \in DOMAIN ops :
         /\ ops[o].id \in DOMAIN remote[ops[o].c]
         /\ Cardinality(LocalIndexes(ops[o].c, ops[o].id)) = 1
         /\ \A i \in LocalIndexes(ops[o].c, ops[o].id) :
              data[ops[o].c][i] = remote[ops[o].c][ops[o].id]

\* C3: in connected mode, while the remote commit of an add of a new id has
\* not succeeded, the local store does not hold a record of that id.
C3_RemoteFirst ==
  \A o \in DOMAIN ops :
    (/\ Connected
     /\ ops[o].m \in AddMethods
     /\ ~ops[o].misuse
     /\ \A o2 \in DOMAIN ops : ops[o2].misuse => ops[o2].c # ops[o].c
     /\ ops[o].rem = "sent")
      => ~HasId(data[ops[o].c], ops[o].id)

\* C4 (services/mockDb.ts): once the mode is degraded it stays degraded, also
\* across repeated init() calls, and a write issued in degraded mode never
\* contacts the remote store.
C4_DegradedSticky ==
  [][/\ isOffline => isOffline'
     /\ \A o \in DOMAIN ops' : ops'[o].degradedAtCall => ops'[o].rem = "none"]_vars

\* C5 (services/mockDb.ts): while the mode reads as connected, every record
\* the read accessors return, the bootstrap super-admin apart, has a document
\* of its id in the remote store.
C5_ConnectedOnlyConfirmed ==
  Connected =>
    \A c \in Collections :
      \A i \in DOMAIN data[c] :
        data[c][i].id # SuperAdminId => data[c][i].id \in DOMAIN remote[c]

\* C6: a write issued in connected mode whose remote commit failed does not
\* return to its caller as a confirmed write does (plain resolution), and
\* its mutation is applied locally.
C6_FailureSurfaced ==
  \A o \in DOMAIN ops :
    (ops[o].pc = "done" /\ ops[o].rem = "failed" /\ ~ops[o].degradedAtCall)
      => /\ ops[o].res # "resolved"
         /\ AppliedLocally(ops[o])

\* C7: a write issued in connected mode, after init() has completed, does
\* not reject towards its caller because its remote commit failed.
C7_NoRejection ==
  \A o \in DOMAIN ops :
    (ops[o].rem = "failed" /\ ~ops[o].degradedAtCall)
      => ops[o].res # "rejected"

\* a write completes in this step
Completes(o) ==
  /\ o \in DOMAIN ops'
  /\ ops'[o].pc = "done"
  /\ (o \in DOMAIN ops => ops[o].pc # "done")

\* C8 (services/mockDb.ts): after every write that completes while the mode
\* is degraded, the storage item is the full in-memory snapshot.  Device
\* storage is best-effort: a session whose setItem raises is left aside, so
\* a violation shown here also violates the claim read without that proviso.
C8_PersistedWhenDegraded ==
  [][\A o \in OpIds :
       (Completes(o) /\ isOffline' /\ ~storageFull)
         => localStorage' = JSONstringify(data')]_vars

\* C9: without a remote configuration a finished init() has made no remote
\* call, has completed without error, has left the mode degraded, and the
\* local store holds the snapshot read from device storage.
C9_NoConfigInit ==
  (~hasConfig /\ initResult # "none" /\ ops = <<>>)
    => /\ pcInit = 0
       /\ initResult = "resolved"
       /\ Degraded
       /\ HoldsStoredSnapshot

\* init() ran with a configuration and its bulk load or subscription setup
\* raised
LoadRaised ==
  /\ hasConfig
  /\ IF impl = "mockDb" THEN initialized /\ isOffline
     ELSE initResult = "rejected"

\* C10: when the bulk load or the subscription setup raised, the mode is
\* degraded after init() and the local store holds the device-storage
\* snapshot, with no collection loaded from the remote store.
C10_FailedLoadFallsBack ==
  (LoadRaised /\ ops = <<>>) => Degraded /\ HoldsStoredSnapshot

\* C11: a load that raised during the first init() reaches the caller of
\* init() as a rejection, and no write rejects towards its caller because
\* its remote commit failed.
C11_InitFailureSurfaced ==
  /\ (LoadRaised /\ ops = <<>>) => initResult = "rejected"
  /\ \A o \in DOMAIN ops :
       (ops[o].rem = "failed" /\ ~ops[o].degradedAtCall)
         => ops[o].res = "resolved"

\* a call of init() settles in this step (services/mockDb.ts)
InitSettles == initialized' /\ (~initialized \/ pcInit' < pcInit)

\* C12 (services/mockDb.ts): every init() that settles resolves and leaves a
\* super-admin in the user collection; when it fell back to device storage
\* and the stored item was absent or unparsable, the local store is the
\* empty snapshot plus the approved bootstrap super-admin.
C12_SeededWithSuperAdmin ==
  [][InitSettles =>
       /\ initResult' = "resolved"
       /\ HasSuperAdmin(data'.users)
       /\ (isOffline' /\ ParseThrows(localStorage))
            => /\ data' = Push(INITIAL_DATA, "users", BootstrapAdmin)
               /\ BootstrapAdmin.isApproved]_vars

\* C12 witness: init() has settled in offline mode after seeding: the stored
\* item is the empty snapshot that seedOfflineData saved, and the local
\* store is that snapshot plus the bootstrap super-admin.
C12_Witness ==
  /\ impl = "mockDb"
  /\ initialized
  /\ isOffline
  /\ ops = <<>>
  /\ localStorage = JSONstringify(INITIAL_DATA)
  /\ data = Push(INITIAL_DATA, "users", BootstrapAdmin)

\* C13 (unnamed/part_001): no observer is invoked after its deregistration
\* handle has been called, also when the handle is called from inside
\* another observer's callback during a notification round.
C13_NoCallAfterDeregistration == late = {}

\* C14 (unnamed/part_001): every step that changes the local collections (a
\* write applying its record, a snapshot replacing a collection) invokes
\* every observer that is registered after it, the collections being
\* changed before the round starts.
C14_MutationNotifies ==
  [][data' # data => Range(subscribers') \subseteq notified']_vars

\* the message a fetched entry was decoded from
MessageOf(entry) == mailbox[entry.id]

\* reading property k of a JavaScript object: an absent property reads as
\* undefined, like one that is present with the value undefined
Read(obj, k) == IF k \in DOMAIN obj THEN obj[k] ELSE "undefined"

\* v is a packet equal to p: the same type, timestamp and sender, and a
\* payload whose every property reads as it does in p
SamePacket(v, p) ==
  /\ IsSyncPacket(v)
  /\ v.type = p.type
  /\ v.timestamp = p.timestamp
  /\ v.sender = p.sender
  /\ \A k \in DOMAIN v.data \cup DOMAIN p.data : Read(v.data, k) = Read(p.data, k)

\* C15 (services/mailService.ts): decoding the envelope that encrypt made
\* of a packet p gives a packet equal to p: every packet fetchLatestData
\* decoded from a peer's envelope equals the packet the peer encoded.
C15_RoundTrip ==
  \A i \in DOMAIN fetched :
    MessageOf(fetched[i]).origin # null
      => SamePacket(fetched[i].data, MessageOf(fetched[i]).origin)

\* C16 (services/mailService.ts): a text that no encrypt of a packet made
\* decodes to null, so fetchLatestData pushes nothing for it: every fetched
\* entry comes from a peer's envelope and has the shape of a SyncPacket.
C16_ForeignTextGivesNull ==
  \A i \in DOMAIN fetched :
    /\ MessageOf(fetched[i]).origin # null
    /\ IsSyncPacket(fetched[i].data)

\* the positions on the first result page whose message decodes
Decodable == {j \in DOMAIN FirstPage : Truthy(decrypt(BodyOf(FirstPage[j])))}

\* the result holds one entry for each message of the first page that
\* decodes, and no other; the entries stand in message order; each entry is
\* what its message decodes to
ExactlyDecodable ==
  /\ Len(fetched) = Cardinality(Decodable)
  /\ IdsOf(fetched) = {FirstPage[j].id : j \in Decodable}
  /\ \A i, j \in DOMAIN fetched : i < j => fetched[i].id < fetched[j].id
  /\ \A i \in DOMAIN fetched :
       fetched[i].data = decrypt(BodyOf(MessageOf(fetched[i])))

\* a call of fetchLatestData that the provider served: the service was
\* authenticated and no messages.list or messages.get raised
FetchServed == mail_fetchLatestData /\ fetchResult' = "ok"

\* C17 (services/mailService.ts): a fetchLatestData that the provider served
\* returns exactly the packets of the first-page messages that decode, in
\* message order; a message that does not decode is skipped, takes no other
\* message's packet out of the result and raises nothing.
C17_FetchReturnsDecodable == [][FetchServed => ExactlyDecodable']_vars

\* C17 witness: a served fetch over two messages skipped the first, which
\* does not decode, and returned the packet of the second.
C17_Witness ==
  /\ fetchResult = "ok"
  /\ Len(mailbox) = 2
  /\ ~Truthy(decrypt(BodyOf(mailbox[1])))
  /\ Len(fetched) = 1
  /\ fetched[1].id = 2

\* C18 (services/mailService.ts): a packet reaches the caller at most once:
\* no message whose packet an earlier fetchLatestData returned is returned
\* again by a later one, and one result holds no two entries made from the
\* same envelope of a peer.
C18_DeliveredAtMostOnce ==
  /\ redelivered = {}
  /\ \A i, j \in DOMAIN fetched :
       (i # j /\ MessageOf(fetched[i]).origin # null)
         => MessageOf(fetched[i]).body # MessageOf(fetched[j]).body

\* a broadcastData call has resolved its recipients and gone on to the end:
\* it sent the message, or returned because no recipient was left
Resolved == sendResult \in {"sent", "returned"}

\* the recipients that call used: those of the message it sent, none when
\* it returned without sending
ResolvedRecipients ==
  IF sendResult = "sent" THEN Range(outbox[Len(outbox)].bcc) ELSE {}

\* an address that is not empty and holds the marker '@'
HasMarker(e) == e # <<>> /\ "@" \in Range(e)

ListEntries(optList) == IF optList = <<>> THEN {} ELSE Range(optList[1])

Named(u) ==
  {u.email} \cup
  (IF u.hierarchy = <<>> THEN {}
   ELSE LET h == u.hierarchy[1] IN
          (IF h.rsmEmail = <<>> THEN {} ELSE {h.rsmEmail[1]})
            \cup ListEntries(h.seEmails) \cup ListEntries(h.dealerEmails)
            \cup ListEntries(h.dseEmails))

\* C20 (services/mailService.ts): the recipients a broadcast uses are
\* exactly the named addresses that hold '@' (so none without '@' and no
\* empty string), and the list of a sent message holds no address twice.
C20_RecipientsExact ==
  /\ Resolved => ResolvedRecipients = {e \in Named(actingUser) : HasMarker(e)}
  /\ sendResult = "sent" =>
       LET list == outbox[Len(outbox)].bcc IN
         \A i, j \in DOMAIN list : i # j => list[i] # list[j]

\* C20 witness: a message was sent for a user whose record names the own
\* address again in seEmails, next to an address without '@'.
C20_Witness ==
  /\ sendResult = "sent"
  /\ actingUser.hierarchy # <<>>
  /\ actingUser.hierarchy[1].seEmails # <<>>
  /\ actingUser.email \in ListEntries(actingUser.hierarchy[1].seEmails)
  /\ \E e \in ListEntries(actingUser.hierarchy[1].seEmails) : ~HasMarker(e)
  /\ actingUser.email \in ResolvedRecipients

\* the orders a list can be put in
Occurrences(list, e) == Cardinality({i \in DOMAIN list : list[i] = e})

Perms(list) ==
  {p \in [DOMAIN list -> Range(list)] :
     \A e \in Range(list) : Occurrences(p, e) = Occurrences(list, e)}

OptPerms(optList) ==
  IF optList = <<>> THEN {<<>>} ELSE {<<p>> : p \in Perms(optList[1])}

\* the user records that differ from u only in the order of the entries of
\* seEmails, dealerEmails and dseEmails
Reorderings(u) ==
  IF u.hierarchy = <<>> THEN {u}
  ELSE LET h == u.hierarchy[1] IN
         {[u EXCEPT !.hierarchy =
             <<[h EXCEPT !.seEmails = s, !.dealerEmails = d, !.dseEmails = e]>>] :
            s \in OptPerms(h.seEmails), d \in OptPerms(h.dealerEmails),
            e \in OptPerms(h.dseEmails)}

\* C21 (services/mailService.ts): the recipients a broadcast used are the
\* recipients broadcastData computes for every reordering of the acting
\* user's hierarchy lists.
C21_ReorderInvariant ==
  Resolved =>
    \A u2 \in Reorderings(actingUser) :
      Range(RecipientList(u2)) = ResolvedRecipients

\* C21 witness: a message was sent for a user whose seEmails holds two
\* different valid addresses, so that there is another order.
C21_Witness ==
  /\ sendResult = "sent"
  /\ actingUser.hierarchy # <<>>
  /\ actingUser.hierarchy[1].seEmails # <<>>
  /\ LET se == actingUser.hierarchy[1].seEmails[1] IN
       /\ Len(se) = 2
       /\ se[1] # se[2]
       /\ HasMarker(se[1]) /\ HasMarker(se[2])
       /\ {se[1], se[2]} \subseteq ResolvedRecipients
  /\ Cardinality(Reorderings(actingUser)) > 1

\* a call of broadcastData
BroadcastStep ==
  \E packet \in BroadcastPackets, salt \in SendSalts : mail_broadcastData(packet, salt)

\* the named addresses of u that hold '@'
ValidNamed(u) == {e \in Named(u) : HasMarker(e)}

\* C22 (services/mailService.ts): an authenticated broadcastData hands
\* exactly one message to the transport when the user record names a valid
\* address, and none when it names no valid address.
C22_OneMessageOrNone ==
  [][(BroadcastStep /\ accessToken) =>
       Len(outbox') = Len(outbox) + (IF ValidNamed(actingUser) = {} THEN 0 ELSE 1)]_vars

\* C22 witness: an authenticated broadcast of a user with a hierarchy that
\* names no valid address has returned, nothing having been handed over.
C22_Witness ==
  /\ accessToken
  /\ sendResult = "returned"
  /\ actingUser.hierarchy # <<>>
  /\ Cardinality(Named(actingUser)) > 1
  /\ outbox = <<>>

\* the message of the last broadcast
LastSent == outbox[Len(outbox)]

\* C23 (services/mailService.ts): in a sent message the To recipient is the
\* acting user, and the Bcc list is exactly the other recipients: the valid
\* named addresses without the To recipient.
C23_PrimaryAndBlindCopies ==
  sendResult = "sent" =>
    /\ LastSent.to = actingUser.email
    /\ Range(LastSent.bcc) = ValidNamed(actingUser) \ {LastSent.to}

\* C24 (services/mailService.ts): a fetchLatestData or broadcastData called
\* while no access token is held (the consent flow has not completed) ends
\* with an error raised to its caller and makes no transport call.
C24_AuthRequired ==
  [][/\ (mail_fetchLatestData /\ ~accessToken)
          => fetchResult' = "threw" /\ delivered' = delivered
     /\ (BroadcastStep /\ ~accessToken)
          => sendResult' = "threw" /\ outbox' = outbox]_vars

\* C25 (services/mailService.ts): a signIn() that has run to its end has
\* settled; when it was rejected (the consent flow or the profile lookup
\* failed) the service holds no access token, and a broadcastData that
\* follows ends with "Not Authenticated".
C25_FailedSignInStaysUnauthenticated ==
  [][/\ signInCall'.pc = "done" => signInCall'.res \in {"resolved", "rejected"}
     /\ signInCall'.res = "rejected" => ~accessToken'
     /\ (BroadcastStep /\ signInCall.res = "rejected") => sendResult' = "threw"]_vars

\* the values of the payload properties of packet p
PayloadValues(p) == {p.data[k] : k \in DOMAIN p.data}

\* msg is the envelope of packet p: the subject is the tag, the type and the
\* timestamp of p and nothing else, no payload value among them; the body is
\* a ciphertext under the application key, and what it encloses is p
EnvelopeOf(msg, p) ==
  /\ Len(msg.subject) = 3
  /\ msg.subject[1] = SYNC_SUBJECT_PREFIX
  /\ msg.subject[2] = p.type
  /\ msg.subject[3] = p.timestamp
  /\ \A i \in DOMAIN msg.subject : msg.subject[i] \notin PayloadValues(p)
  /\ msg.body.kind = "aes"
  /\ msg.body.key = APP_SECRET_KEY
  /\ decrypt(msg.body) = PacketJSON(p)

\* C26 (services/mailService.ts): every message broadcastData hands to the
\* transport is the envelope of a packet: subject = tag, type and timestamp
\* only, body = the ciphertext only; neither the payload nor the sender
\* stands in plaintext in subject or body.
C26_OnlyCiphertextLeaves ==
  \A i \in DOMAIN outbox : \E p \in BroadcastPackets : EnvelopeOf(outbox[i], p)

\* C26 witness: a CUSTOMER packet has been sent.
C26_Witness ==
  /\ sendResult = "sent"
  /\ outbox # <<>>
  /\ LastSent.subject[2] = "CUSTOMER"
  /\ LastSent.body.kind = "aes"

\* uploadAttachments of write op ran in connected mode over a non-empty
\* list, has gone through the whole list, and no upload raised
UploadedAll(op) ==
  /\ op.given # <<>>
  /\ ~op.degradedAtCall
  /\ ~op.upFailed
  /\ op.res # "rejected"
  /\ Len(op.atts) = Len(op.given)

\* C27 (services/mockDb.ts, unnamed/part_001): in connected mode with every
\* upload succeeding, uploadAttachments returns the attachments in their
\* order; one whose payload is a URL is returned as it is and was not
\* handed to uploadString; any other keeps name and type and carries the
\* URL that blob storage returned.
C27_UploadReplacesPayloads ==
  \A o \in DOMAIN ops :
    UploadedAll(ops[o]) =>
      \A i \in DOMAIN ops[o].given :
        LET file == ops[o].given[i]
            out  == ops[o].atts[i]
        IN  IF IsUrl(file.data)
            THEN out = file /\ file \notin Range(ops[o].sentUp)
            ELSE /\ out.name = file.name
                 /\ out.type = file.type
                 /\ out.data = "http_uploaded"
                 /\ file \in Range(ops[o].sentUp)

\* C27 witness: a plan write has taken a list of a URL attachment followed
\* by an inline one through uploadAttachments, and has resolved.
C27_Witness ==
  \E o \in DOMAIN ops :
    /\ UploadedAll(ops[o])
    /\ Len(ops[o].given) = 2
    /\ IsUrl(ops[o].given[1].data)
    /\ ~IsUrl(ops[o].given[2].data)
    /\ ops[o].pc = "done"
    /\ ops[o].res = "resolved"

\* C28 (services/mockDb.ts, unnamed/part_001): a plan write with attachments
\* that is called in degraded mode hands nothing to uploadString, is not
\* rejected, and goes on with every attachment as it was given.
C28_DegradedKeepsInline ==
  \A o \in DOMAIN ops :
    (ops[o].given # <<>> /\ ops[o].degradedAtCall) =>
      /\ ops[o].sentUp = <<>>
      /\ ops[o].res # "rejected"
      /\ ops[o].pc # "upload" => ops[o].arg.attachments = ops[o].given

\* C29 (services/mockDb.ts, unnamed/part_001): a plan write one of whose
\* uploads raised fails: it does not resolve, sends no remote write and does
\* not change the local store, so that no plan with uploaded next to
\* not-uploaded attachments is stored.
C29_UploadFailureFailsWrite ==
  \A o \in DOMAIN ops :
    ops[o].upFailed =>
      /\ ops[o].res # "resolved"
      /\ ops[o].rem = "none"
      /\ ~ops[o].applied

\* the organizations the attempt names, and whether users of organization
\* id may authenticate
NamedOrgs ==
  {data.organizations[i] : i \in {j \in DOMAIN data.organizations :
     Lower(data.organizations[j].name) = Lower(loginResult.orgName)}}

MayAuthenticate(id) ==
  \/ id = SystemGlobalId
  \/ \E i \in DOMAIN data.organizations :
       data.organizations[i].id = id /\ data.organizations[i].isApproved

LoginRespectsApproval ==
  /\ loginResult.result.success
       => MayAuthenticate(loginResult.result.user.organizationId)
  /\ (NamedOrgs # {} /\ \A org \in NamedOrgs :
                          ~org.isApproved /\ org.id # SystemGlobalId)
       => /\ ~loginResult.result.success
          /\ loginResult.result.message =
               "Organization is pending approval by Super Admin."

\* C30 (unnamed/part_000, unnamed/part_002, pages/Login.tsx): whatever was
\* registered and approved before, a login attempt succeeds only for a user
\* whose organization is approved at that moment or is system_global, and an
\* attempt against an organization that is not approved fails with the
\* pending-approval message.
C30_LoginNeedsApprovedOrganization ==
  [][loginResult' # loginResult => LoginRespectsApproval']_vars

\* the fields of update op that no other update of the same record writes
OwnFields(op) ==
  {k \in DOMAIN op.arg :
     \A o2 \in DOMAIN ops :
       (ops[o2] # op /\ ops[o2].c = op.c /\ ops[o2].id = op.id
          /\ ops[o2].m \notin AddMethods)
         => k \notin DOMAIN ops[o2].arg}

\* snapshot d holds the effect of write op: the record of an add is there,
\* a record of the id of an update carries the fields the update gave it
EffectIn(d, op) ==
  \E i \in DOMAIN d[op.c] :
    /\ d[op.c][i].id = op.id
    /\ op.m \notin AddMethods
         => \A k \in OwnFields(op) : d[op.c][i][k] = op.arg[k]

\* two writes were in flight at the same time and both returned to their
\* callers without an error; ids were used as the methods expect
TwoWritesReturned ==
  /\ \E o \in DOMAIN ops : ops[o].concurrent
  /\ AllDone
  /\ \A o \in DOMAIN ops : ops[o].res = "resolved" /\ ~ops[o].misuse

\* C31: when writes of which two were in flight at the same time have all
\* returned, whatever the order of their remote completions and whether or
\* not a demotion happened between them, the in-memory snapshot holds the
\* effects of both, and in degraded mode so does the persisted snapshot
\* (device storage that takes the item).
C31_NoLostUpdate ==
  TwoWritesReturned
    => \A o \in DOMAIN ops :
         /\ EffectIn(data, ops[o])
         /\ (impl = "mockDb" /\ isOffline /\ ~storageFull)
              => EffectIn(StoredSnapshot, ops[o])

\* the continuation of write o runs after its remote commit, and a snapshot
\* had replaced the collection while the write was in flight
ResumesAfterRace(o) == part001_resume(o) /\ ops[o].raced

\* C32 (unnamed/part_001): when a snapshot replacement raced with a write in
\* flight, the step in which the write goes on after its own remote commit
\* leaves the written record in the local store and invokes the registered
\* observers.
C32_ReappliedAndNotified ==
  [][\A o \in OpIds :
       (ResumesAfterRace(o) /\ ops[o].m \in AddMethods)
         => /\ HasId(data'[ops[o].c], ops[o].id)
            /\ Range(subscribers') \subseteq notified']_vars

\* no collection of the local store holds two records of one id
UniqueIds ==
  \A c \in Collections :
    \A i, j \in DOMAIN data[c] : data[c][i].id = data[c][j].id => i = j

\* every add was given an id that was new: not stored locally or remotely
\* and not given to an earlier add
AddsUseNewIds ==
  \A o \in DOMAIN ops : ops[o].m \in AddMethods => ~ops[o].misuse

\* C33: provided every add is given an id that was not used before, no local
\* collection holds two records of the same id, however adds, remote
\* commits and snapshot deliveries interleave.
C33_UniqueIds == AddsUseNewIds => UniqueIds

\* the list positions uploadAttachments has taken up so far in write op
\* whose file is not a URL
InlineTaken(op) ==
  {i \in 1..(Len(op.atts) + op.inFlight) : ~IsUrl(op.given[i].data)}

\* write op has stored its plan: in this.data, or by sending it to the
\* remote store
PlanStored(op) == op.applied \/ op.rem # "none"

\* C34 (services/mockDb.ts): within one addPlan/updatePlan at most one
\* upload is in flight at any time, the uploads are started in list order
\* (each inline file taken up so far was handed over once, at its turn), and
\* the plan is stored locally or remotely only when every attachment has
\* been processed.
C34_SequentialUploads ==
  \A o \in DOMAIN ops :
    LET op == ops[o] IN
      /\ op.inFlight <= 1
      /\ \A i, j \in DOMAIN op.upAt : i < j => op.upAt[i] < op.upAt[j]
      /\ ~op.degradedAtCall => Range(op.upAt) = InlineTaken(op)
      /\ PlanStored(op) => Len(op.atts) = Len(op.given) /\ op.inFlight = 0

\* C34 witness: a plan write with two inline attachments has had the first
\* upload settle and the second one start, and has stored nothing yet.
C34_Witness ==
  \E o \in DOMAIN ops :
    /\ ops[o].upAt = <<1, 2>>
    /\ ops[o].inFlight = 1
    /\ Len(ops[o].atts) = 1
    /\ ~PlanStored(ops[o])

\* the remote write of call o raised and the catch block runs
WriteFails(o) == mockDb_catch(o)

LoadSucceeds == mockDb_initLoaded

\* C36 (services/mockDb.ts): the step in which the bulk load of init()
\* resolves leaves the mode connected, the organizations, customers and
\* plans equal to the remote collections, and the users equal to the remote
\* users, followed by the bootstrap super-admin exactly when the remote users
\* hold no super-admin under a bootstrap address; the step writes nothing to
\* the remote store, which never holds the bootstrap record.
C36_LoadMirrorsRemote ==
  [][/\ LoadSucceeds =>
          /\ ~isOffline'
          /\ \A c \in Collections \ {"users"} : data'[c] = SnapDocs(c)
          /\ data'.users =
               IF HasSuperAdmin(SnapDocs("users")) THEN SnapDocs("users")
               ELSE Append(SnapDocs("users"), BootstrapAdmin)
          /\ remote' = remote
     /\ \A id \in DOMAIN remote'.users : remote'.users[id] # BootstrapAdmin]_vars

\* C36 witness: init() has loaded a remote store that holds a super-admin
\* and a plan; the local users are the remote users, with no bootstrap
\* record added.
C36_Witness ==
  /\ impl = "mockDb"
  /\ initialized
  /\ ~isOffline
  /\ ops = <<>>
  /\ data.plans # <<>>
  /\ data.plans = SnapDocs("plans")
  /\ data.users = SnapDocs("users")
  /\ HasSuperAdmin(data.users)

\* the update of call o is applied to the local store in this step
UpdateApplies(o) ==
  /\ o \in DOMAIN ops'
  /\ ops'[o].m \notin AddMethods
  /\ ops'[o].applied
  /\ (o \in DOMAIN ops => ~ops[o].applied)

\* record new is record old with the fields of updates laid over it
MergedOver(new, old, updates) ==
  /\ DOMAIN new = DOMAIN old \cup DOMAIN updates
  /\ \A k \in DOMAIN updates : new[k] = updates[k]
  /\ \A k \in DOMAIN old \ DOMAIN updates : new[k] = old[k]

\* C37: the step in which an update (updateOrganization, updateUser,
\* updatePlan) is applied locally leaves the other three collections as they
\* were, keeps the size and the order of its collection, lays the given
\* fields over each record of the given id and leaves every other record as
\* it was; with no record of that id the collection is unchanged.
C37_UpdateFrame ==
  [][\A o \in OpIds :
       UpdateApplies(o) =>
         LET op == ops'[o] IN
           /\ \A c \in Collections \ {op.c} : data'[c] = data[c]
           /\ Len(data'[op.c]) = Len(data[op.c])
           /\ \A i \in DOMAIN data[op.c] :
                IF data[op.c][i].id = op.id
                THEN MergedOver(data'[op.c][i], data[op.c][i], op.arg)
                ELSE data'[op.c][i] = data[op.c][i]
           /\ ~HasId(data[op.c], op.id) => data'[op.c] = data[op.c]]_vars

\* C37 witness: an update has been applied to a collection of two records
\* and changed the one of its id; the other record has another id.
C37_Witness ==
  \E o \in DOMAIN ops :
    /\ ops[o].m = "updateUser"
    /\ ops[o].applied
    /\ Len(data.users) = 2
    /\ \E i, j \in DOMAIN data.users :
         /\ data.users[i].id = ops[o].id
         /\ data.users[i].role = "RSM"
         /\ data.users[j].id # ops[o].id
         /\ data.users[j].role # "RSM"

\* a call of init() runs on an instance whose init() has completed
InitCalledAgain == initialized /\ (mockDb_initBody \/ part001_initBody)

\* C38: a call of init() made after init() has completed returns: it starts
\* no bulk load and registers no listener, leaves the remote store and the
\* storage item as they are, and leaves the mode and the four collections
\* unchanged.
C38_InitIdempotent ==
  [][InitCalledAgain =>
       /\ initResult' = "resolved"
       /\ pcInit' = pcInit
       /\ listeners' = listeners
       /\ remote' = remote
       /\ localStorage' = localStorage
       /\ isOffline' = isOffline
       /\ isOnline' = isOnline
       /\ initialized'
       /\ data' = data]_vars

\* C38 witness: init() was called again after it had completed in a session
\* that holds records, and the call has returned.
C38_Witness ==
  /\ reinit
  /\ initialized
  /\ \E c \in Collections : Len(data[c]) > 1

\* C39: fetchLatestData never raises to its caller, and a call the transport
\* cut short, at messages.list or at any messages.get, has returned the
\* empty list, whatever the loop had pushed before.
C39_AllOrNothing ==
  /\ fetchResult # "threw"
  /\ fetchResult = "failed" => fetched = <<>>

\* C39 witness: messages.get raised after the loop had pushed a packet, and
\* the call returned the empty list.
C39_Witness ==
  /\ fetchResult = "failed"
  /\ discarded # <<>>
  /\ fetched = <<>>

====
